---------------------------- MODULE Spec2Model ----------------------------
(***************************************************************************)
(* A model of dns-lookup-go: the stub client (Resolver.Query and           *)
(* Resolver.query), the DNSSEC authenticator (Resolver.Authenticate,       *)
(* authenticateZoneSigningKey, newSignatureSets and the SignatureSet       *)
(* methods) and the iterative resolver (RecursiveNameserver and            *)
(* zoneResolver).                                                          *)
(*                                                                         *)
(* Domain names are sequences of one-character strings, so that            *)
(* strings.HasSuffix, strings.TrimRight and strings.Split act on           *)
(* characters as they do in Go.  A signature is abstracted to the key that *)
(* made it and the RRset it was made over.                                 *)
(***************************************************************************)
EXTENDS Integers, Sequences, FiniteSets, TLC

VARIABLES
    \* newSignatureSets applied to a drawn input
    ss_in, ss_out, ss_pc,
    \* one call of LookupNameserver.Query or of a typed helper of the Resolver:
    \* its inputs, what it gave back, and where it stands
    call_in, call_out, call_pc,
    \* Resolver: its fields
    nameservers, RootDNSSECRecords, LocallyAuthenticateData,
    RemotelyAuthenticateData, RandomNameserver, maxAuthenticationDepth,
    Trace, EnableTrace,
    \* the zone data the nameservers serve, how the transport behaves, and the
    \* question of the top-level Query
    world, env, top,
    \* the names that the callers of RecursiveNameserver.Query ask for, and
    \* the number of Queries they make on the instance
    walk_names, walk_limit,
    \* Resolver.Query: where it stands, its reply of the lookup, what it returned
    pc, Query_msg, ret,
    \* Resolver.query: the running lookup and what it returned
    q, q_res,
    \* Resolver.Authenticate: msg, depth and the loop of authenticateZoneSigningKey
    au,
    \* history of one Query: the Authenticate invocations, what the top-level
    \* one returned, the verified KSK sets and the KSK sets whose DS was matched
    h_auth, h_err, h_ksk, h_linked,
    \* history of one Query: the signature sets that reached the key search,
    \* each with the key it was verified with, or no key
    h_keyed,
    \* RecursiveNameserver: the tree of zoneResolvers below rootZoneResolver,
    \* each node the nsA map of its zone, and maxQueryCount
    rootZoneResolver, maxQueryCount, walk_Trace, walk_EnableTrace,
    \* RecursiveNameserver.Query: where it stands, its queryCounter, and what
    \* it returned
    walk_pc, queryCounter, walk_ret,
    \* the calls of zoneResolver.query and zoneResolver.queryNameserver in
    \* progress, innermost last, and what the call that just returned gave back
    stack, returned,
    \* the transport calls that the network has carried to a reply so far
    carried,
    \* history: the NameServer.Query calls made by queryNameserver during the
    \* current top-level Query, and the top-level Queries made so far
    h_calls, h_queries,
    \* history of one Query: an authoritative reply without answer was received
    h_nodata,
    \* the calls of Resolver.query that run concurrently on one Resolver: where
    \* each stands in getNameservers and in the loop over the nameservers
    conc

sigVars == <<ss_in, ss_out, ss_pc>>
cfgVars == <<RootDNSSECRecords, LocallyAuthenticateData, RemotelyAuthenticateData,
             RandomNameserver, maxAuthenticationDepth, EnableTrace, walk_EnableTrace,
             world, env, top, walk_names, walk_limit>>
stubVars == <<nameservers, pc, Query_msg, ret, q, q_res, Trace>>
authVars == <<au, h_auth, h_err, h_ksk, h_linked, h_keyed>>
walkVars == <<rootZoneResolver, maxQueryCount, walk_pc, queryCounter, walk_ret,
              stack, returned, carried, walk_Trace, h_calls, h_queries, h_nodata>>
raceVars == <<conc>>
callVars == <<call_in, call_out, call_pc>>
vars == <<sigVars, cfgVars, stubVars, authVars, walkVars, raceVars, callVars>>

-----------------------------------------------------------------------------
(* Bounds of the model *)

\* longest record sequence handed to newSignatureSets on its own
MaxLen == 3
\* most nameservers configured on the stub client
MaxNameservers == 2
\* largest max-authentication-depth configured
MaxAuthenticationDepth == 4
\* most departures of a world from the valid chain
MaxTampers == 2

-----------------------------------------------------------------------------
(* Names *)

Root == <<".">>
Com == <<"c", ".">>
ExampleCom == <<"e", ".", "c", ".">>
TestExampleCom == <<"t", ".", "e", ".", "c", ".">>
\* a name that has the string "e.c." as a suffix without being below the zone e.c.
TeExampleCom == <<"t", ".", "x", "e", ".", "c", ".">>
Other == <<"t", ".", "o", ".">>

MaxOf(S) == CHOOSE m \in S : \A x \in S : x <= m

\* the lower-case form of a character and of a name
ToLower(c) == IF c = "T" THEN "t" ELSE IF c = "E" THEN "e" ELSE IF c = "C" THEN "c" ELSE c
Lower(name) == [i \in 1..Len(name) |-> ToLower(name[i])]

\* strings.HasSuffix(s, suffix)
HasSuffix(s, suffix) ==
    /\ Len(suffix) <= Len(s)
    /\ SubSeq(s, Len(s) - Len(suffix) + 1, Len(s)) = suffix

\* strings.TrimRight(s, ".")
TrimRightDots(s) ==
    LET keep == {i \in 1..Len(s) : s[i] # "."}
    IN  IF keep = {} THEN <<>> ELSE SubSeq(s, 1, MaxOf(keep))

\* countLabels: the labels of a name, the trailing dots ignored
countLabels(domain) ==
    LET d == TrimRightDots(domain)
    IN  IF d = <<>> THEN 0
        ELSE Cardinality({i \in 1..Len(d) : d[i] = "."}) + 1

-----------------------------------------------------------------------------
(* Records *)

DNSKEY_ZSK == 256
DNSKEY_KSK == 257

TypeA == "A"
TypeDS == "DS"
TypeDNSKEY == "DNSKEY"
TypeRRSIG == "RRSIG"

RR(rrtype, name, rdata) == [rrtype |-> rrtype, name |-> name, rdata |-> rdata]

RR_A(name, addr) == RR(TypeA, name, [a |-> addr])

\* a DNSKEY: kid names the key pair, tag is what KeyTag() computes from it
RR_DNSKEY(zone, flags, kid, tag) ==
    RR(TypeDNSKEY, zone, [flags |-> flags, kid |-> kid, tag |-> tag, alg |-> "alg"])

\* a DS: digest is the hash of key kid under digestType; upper is the case of
\* the hex string that carries it
RR_DS(zone, keyTag, kid, digestType, upper) ==
    RR(TypeDS, zone, [keyTag |-> keyTag, alg |-> "alg", digestType |-> digestType,
                      digest |-> [of |-> kid, upper |-> upper]])

\* an RRSIG: inWindow says whether [inception, expiration] holds the current
\* time; by is the key pair that made the signature and over the RRset it signed
RR_RRSIG(owner, typeCovered, signerName, labels, keyTag, inWindow, by, over) ==
    RR(TypeRRSIG, owner,
       [typeCovered |-> typeCovered, signerName |-> signerName, labels |-> labels,
        keyTag |-> keyTag, inWindow |-> inWindow, by |-> by, over |-> over])

IsRRSIG(rr) == rr.rrtype = TypeRRSIG

Range(s) == {s[i] : i \in 1..Len(s)}

SeqsUpTo(S, n) == UNION {[1..k -> S] : k \in 0..n}

-----------------------------------------------------------------------------
(* Errors *)

Err(kind) == [kind |-> kind, cause |-> "", n |-> 0]
NoErr == Err("nil")
ErrNoRRSIG == Err("no RRSIG records found")
ErrUnassigned == Err("was unable to be assigned to any RRSIG")

-----------------------------------------------------------------------------
(* SignatureSet *)

NoKey == RR("nil", <<>>, [flags |-> 0, kid |-> "nil", tag |-> 0, alg |-> "nil"])

SignatureSet(key, signature, records) ==
    [key |-> key, signature |-> signature, records |-> records]

\* SignatureSet.addRR: whether the set of signature adopts rr
addRR_mutant(signature, rr) ==
    /\ signature.rdata.typeCovered = rr.rrtype
    /\ HasSuffix(rr.name, signature.rdata.signerName)

addRR(signature, rr) ==
    /\ signature.rdata.typeCovered = rr.rrtype
    /\ HasSuffix(rr.name, signature.rdata.signerName)
    /\ signature.rdata.labels = countLabels(rr.name)

\* newSignatureSets: [err, sets]
newSignatureSets_mutant(rrset) ==
    LET signatures == SelectSeq(rrset, IsRRSIG)
        NotRRSIG(rr) == ~IsRRSIG(rr)
        answers == SelectSeq(rrset, NotRRSIG)
        recordsOf(sig) ==
            LET Adopted(rr) == addRR(sig, rr) IN SelectSeq(answers, Adopted)
        sets == [i \in 1..Len(signatures) |->
                    SignatureSet(NoKey, signatures[i], recordsOf(signatures[i]))]
        assigned(rr) == \E i \in 1..Len(signatures) : addRR(signatures[i], rr)
    IN  IF \E j \in 1..Len(answers) : ~assigned(answers[j])
        THEN [err |-> ErrUnassigned, sets |-> <<>>]
        ELSE IF Len(signatures) = 0
        THEN [err |-> ErrNoRRSIG, sets |-> <<>>]
        ELSE [err |-> NoErr, sets |-> sets]

newSignatureSets(rrset) ==
    LET signatures == SelectSeq(rrset, IsRRSIG)
        NotRRSIG(rr) == ~IsRRSIG(rr)
        answers == SelectSeq(rrset, NotRRSIG)
        recordsOf(sig) ==
            LET Adopted(rr) == addRR(sig, rr) IN SelectSeq(answers, Adopted)
        sets == [i \in 1..Len(signatures) |->
                    SignatureSet(NoKey, signatures[i], recordsOf(signatures[i]))]
        assigned(rr) == \E i \in 1..Len(signatures) : addRR(signatures[i], rr)
    IN  IF Len(signatures) = 0
        THEN [err |-> ErrNoRRSIG, sets |-> <<>>]
        ELSE IF \E j \in 1..Len(answers) : ~assigned(answers[j])
        THEN [err |-> ErrUnassigned, sets |-> <<>>]
        ELSE [err |-> NoErr, sets |-> sets]

-----------------------------------------------------------------------------
(* Signature verification *)

ErrOutside == "signature outside of the allowed inception or expiration range"
ErrBadSig == "bad signature"
ErrBadKey == "bad key"
ErrBadRRset == "bad rrset"

ErrVerify(cause) == [kind |-> "unable to verify", cause |-> cause, n |-> 0]
ErrNoMatchingKey == Err("does not have a matching key")
ErrMaxAuthDepth(n) == [kind |-> "maximum authentication depth reached", cause |-> "", n |-> n]
ErrDSRoot == Err("unable to find a matching DS digest at the root")
ErrDSParent == Err("unable to find a matching DS digest at the parent")
ErrNoSets == Err("no signature sets found, unable to validate")
ErrNoNameservers == Err("no nameservers set")
ErrNoAnswer == Err("no answer found on any configured nameserver")
ErrRemoteAD == Err("resolver dnssec authentication failed")

\* dns.IsRRset: at least one record, all of one owner and type
IsRRset(records) ==
    /\ Len(records) > 0
    /\ \A i \in 1..Len(records) :
          records[i].name = records[1].name /\ records[i].rrtype = records[1].rrtype

\* RRSIG.Verify of the DNS library: "" or the cause of the failure.  The
\* signature holds when key made it and made it over exactly these records.
Verify(signature, key, records) ==
    IF ~IsRRset(records) THEN ErrBadRRset
    ELSE IF \/ signature.rdata.keyTag # key.rdata.tag
            \/ signature.rdata.signerName # key.name
    THEN ErrBadKey
    ELSE IF records[1].rrtype # signature.rdata.typeCovered THEN ErrBadRRset
    ELSE IF signature.rdata.by = key.rdata.kid /\ signature.rdata.over = Range(records)
    THEN ""
    ELSE ErrBadSig

\* SignatureSet.verify: the validity window first, then the signature
verify_mutant(ss) ==
    LET cause == Verify(ss.signature, ss.key, ss.records)
    IN  IF cause # "" THEN cause
        ELSE IF ~ss.signature.rdata.inWindow THEN ErrOutside
        ELSE ""

verify(ss) ==
    IF ~ss.signature.rdata.inWindow THEN ErrOutside
    ELSE Verify(ss.signature, ss.key, ss.records)

\* SignatureSet.addKey
addKey_mutant(ss, key, keyType) ==
    ss.signature.rdata.keyTag = key.rdata.tag

addKey(ss, key, keyType) ==
    key.rdata.flags = keyType /\ ss.signature.rdata.keyTag = key.rdata.tag

\* extractRecordsOfType
extractRecordsOfType_mutant(rrtype, rrs) ==
    LET OfType(rr) == rr.rrtype \in {rrtype, TypeRRSIG} IN SelectSeq(rrs, OfType)

extractRecordsOfType(rrtype, rrs) ==
    LET OfType(rr) == rr.rrtype = rrtype IN SelectSeq(rrs, OfType)

\* the loop "for _, key := range keys { if ss.addKey(key, keyType) { break } }":
\* the set with the first matching key attached, or with no key
withKey(ss, keys, keyType) ==
    LET hits == {i \in 1..Len(keys) : addKey(ss, keys[i], keyType)}
    IN  IF hits = {} THEN ss
        ELSE [ss EXCEPT !.key = keys[CHOOSE i \in hits : \A j \in hits : i <= j]]

\* the digest types for which DNSKEY.ToDS of the DNS library derives a DS
SupportedDigestTypes == {"SHA1", "SHA256", "SHA384", "SHA512"}

\* the nil pointer that ToDS returns for any other digest type
NilDS == RR("nil", <<>>, [keyTag |-> 0, alg |-> "nil", digestType |-> "nil",
                          digest |-> [of |-> "nil", upper |-> FALSE]])

\* DNSKEY.ToDS(digestType) and the comparison of the chain step: key tag,
\* algorithm, and the digest by strings.EqualFold
ToDS(key, digestType) ==
    IF digestType \in SupportedDigestTypes
    THEN RR_DS(key.name, key.rdata.tag, key.rdata.kid, digestType, FALSE)
    ELSE NilDS

matchesDS_mutant(answer, key) ==
    LET keyDS == ToDS(key, answer.rdata.digestType)
    IN  /\ answer.rdata.keyTag = keyDS.rdata.keyTag
        /\ answer.rdata.alg = keyDS.rdata.alg
        /\ answer.rdata.digest = keyDS.rdata.digest

matchesDS(answer, key) ==
    LET keyDS == ToDS(key, answer.rdata.digestType)
    IN  /\ answer.rdata.keyTag = keyDS.rdata.keyTag
        /\ answer.rdata.alg = keyDS.rdata.alg
        /\ answer.rdata.digest.of = keyDS.rdata.digest.of

-----------------------------------------------------------------------------
(* The zone data of the nameservers: the chain ".", "c.", "e.c." with the   *)
(* record t.e.c. A 1.1.1.1 (buildFullChain, prepFullChain), and the ways a  *)
(* world departs from it.                                                   *)

Parent(zone) == IF zone = ExampleCom THEN Com ELSE Root

Letter(zone) ==
    IF zone = Root THEN "r" ELSE IF zone = Com THEN "c"
    ELSE IF zone = ExampleCom THEN "e" ELSE "x"

KskTag(zone) ==
    IF zone = Root THEN 1 ELSE IF zone = Com THEN 3 ELSE IF zone = ExampleCom THEN 5 ELSE 7
ZskTag(zone) == KskTag(zone) + 1

KskId(zone) == <<"ksk", Letter(zone)>>
ZskId(zone) == <<"zsk", Letter(zone)>>
Forged == <<"forged", "">>

ksk(zone) == RR_DNSKEY(zone, DNSKEY_KSK, KskId(zone), KskTag(zone))
zsk(zone) == RR_DNSKEY(zone, DNSKEY_ZSK, ZskId(zone), ZskTag(zone))
\* a second key-signing key of e.c., for which the parent publishes no DS
ksk2 == RR_DNSKEY(ExampleCom, DNSKEY_KSK, <<"ksk2", "e">>, 9)

Tampers ==
    { "exp_A", "exp_KEY_e", "exp_DS_e", "exp_KEY_c", "exp_DS_c", "exp_KEY_r",
      "bad_A", "bad_KEY_e", "bad_DS_e", "bad_KEY_c", "bad_DS_c", "bad_KEY_r",
      "data_A", "misbound", "wrongkey", "ds_self_e", "ds_other_c",
      "two_zone", "two_sig", "two_sig_rev", "zsk_signed", "ksk_signed",
      "unsigned_A", "empty_A", "gost_DS_e" }

\* mockNameServerZone.rrsigDNSKEY
rrsigDNSKEY(w, zone, keys) ==
    IF zone = ExampleCom /\ "zsk_signed" \in w
    THEN \* the zone signs its DNSKEY RRset with its ZSK
         RR_RRSIG(zone, TypeDNSKEY, zone, countLabels(zone), ZskTag(zone), TRUE,
                  ZskId(zone), keys)
    ELSE RR_RRSIG(zone, TypeDNSKEY, zone, countLabels(zone), KskTag(zone),
                  ("exp_KEY_" \o Letter(zone)) \notin w,
                  IF ("bad_KEY_" \o Letter(zone)) \in w THEN Forged ELSE KskId(zone),
                  keys)

dnskeyAnswer(w, zone) ==
    IF zone = ExampleCom /\ "wrongkey" \in w
    THEN <<zsk(Com), ksk(zone), rrsigDNSKEY(w, zone, {ksk(zone), zsk(zone)})>>
    ELSE IF zone = ExampleCom /\ "misbound" \in w
    THEN <<zsk(zone), ksk(zone), rrsigDNSKEY(w, Com, {ksk(Com), zsk(Com)})>>
    ELSE IF zone = ExampleCom /\ ("two_sig" \in w \/ "two_sig_rev" \in w)
    THEN LET keys == {zsk(zone), ksk(zone), ksk2}
             s1 == rrsigDNSKEY(w, zone, keys)
             s2 == RR_RRSIG(zone, TypeDNSKEY, zone, countLabels(zone),
                            ksk2.rdata.tag, TRUE, ksk2.rdata.kid, keys)
         IN  IF "two_sig" \in w THEN <<zsk(zone), ksk(zone), ksk2, s1, s2>>
             ELSE <<zsk(zone), ksk(zone), ksk2, s2, s1>>
    ELSE <<zsk(zone), ksk(zone), rrsigDNSKEY(w, zone, {ksk(zone), zsk(zone)})>>

ds(w, zone) ==
    IF zone = Com /\ "ds_other_c" \in w
    THEN RR_DS(zone, KskTag(zone), KskId(TestExampleCom), "SHA384", FALSE)
    ELSE RR_DS(zone, KskTag(zone), KskId(zone), IF zone = Com THEN "SHA384" ELSE "SHA256", FALSE)

\* the DS RRset of a zone; in a world with gost_DS_e the parent of e.c.
\* publishes a DS of digest type GOST R 34.11-94 in front of the SHA-256 one
dsRecords(w, zone) ==
    IF zone = ExampleCom /\ "gost_DS_e" \in w
    THEN <<RR_DS(zone, KskTag(zone), KskId(zone), "GOST94", FALSE), ds(w, zone)>>
    ELSE <<ds(w, zone)>>

\* mockNameServerZone.rrsigDS: the parent's ZSK signs the DS; in a world with
\* ds_self_e the zone e.c. signs its own DS
rrsigDS(w, zone) ==
    LET signer == IF zone = ExampleCom /\ "ds_self_e" \in w THEN zone ELSE Parent(zone)
    IN  RR_RRSIG(zone, TypeDS, signer, countLabels(zone), ZskTag(signer),
                 ("exp_DS_" \o Letter(zone)) \notin w,
                 IF ("bad_DS_" \o Letter(zone)) \in w THEN Forged ELSE ZskId(signer),
                 Range(dsRecords(w, zone)))

dsAnswer(w, zone) == Append(dsRecords(w, zone), rrsigDS(w, zone))

\* mockNameServerZone.rrsigA
rrsigA(w) ==
    IF "ksk_signed" \in w
    THEN \* the zone signs the answer with its KSK
         RR_RRSIG(TestExampleCom, TypeA, ExampleCom, 3, KskTag(ExampleCom), TRUE,
                  KskId(ExampleCom), {RR_A(TestExampleCom, "1.1.1.1")})
    ELSE RR_RRSIG(TestExampleCom, TypeA, ExampleCom, 3, ZskTag(ExampleCom),
                  "exp_A" \notin w,
                  IF "bad_A" \in w THEN Forged ELSE ZskId(ExampleCom),
                  {RR_A(TestExampleCom, "1.1.1.1")})

\* In a world with two_zone the answer holds the signed DS RRset of e.c. and
\* an A record signed by t.e.c., a zone no parent delegates to.  In a world
\* with empty_A the Answer section is empty, and with unsigned_A it holds the
\* A record without signature.
aAnswer(w) ==
    IF "empty_A" \in w THEN <<>>
    ELSE IF "unsigned_A" \in w THEN <<RR_A(TestExampleCom, "1.1.1.1")>>
    ELSE IF "two_zone" \in w
    THEN dsAnswer(w, ExampleCom) \o
         << RR_A(TestExampleCom, "6.6.6.6"),
            RR_RRSIG(TestExampleCom, TypeA, TestExampleCom, 3, ZskTag(TestExampleCom),
                     TRUE, ZskId(TestExampleCom), {RR_A(TestExampleCom, "6.6.6.6")}) >>
    ELSE << RR_A(TestExampleCom, IF "data_A" \in w THEN "2.2.2.2" ELSE "1.1.1.1"),
            rrsigA(w) >>

Question(name, rrtype) == [name |-> name, rrtype |-> rrtype]

\* the questions the nameservers of world w answer
Served(w) ==
    {Question(TestExampleCom, TypeA)}
    \cup {Question(z, TypeDNSKEY) : z \in {Root, Com, ExampleCom}}
    \cup {Question(z, TypeDS) : z \in {Com, ExampleCom}}
    \cup (IF "two_zone" \in w THEN {Question(TestExampleCom, TypeDNSKEY)} ELSE {})

\* prepFullChain: the Answer section served for a question
Answer(w, question) ==
    IF question.rrtype = TypeA THEN aAnswer(w)
    ELSE IF question.rrtype = TypeDNSKEY THEN dnskeyAnswer(w, question.name)
    ELSE dsAnswer(w, question.name)

Msg(question, answer, ad) == [question |-> question, answer |-> answer, ad |-> ad]
NoMsg == Msg(Question(<<>>, "nil"), <<>>, FALSE)

\* the root anchor: the DS of the root KSK, in upper-case hex
RootAnchors == <<RR_DS(Root, KskTag(Root), KskId(Root), "SHA512", TRUE)>>

-----------------------------------------------------------------------------
(* The stub client: Resolver.Query and Resolver.query *)

\* a trace: nil until a Query with EnableTrace creates it, then its Records
NilTrace == [created |-> FALSE, Records |-> <<>>]

\* a record of a trace: a lookup with the question asked, of the stub client
\* at depth 0 and of the iterative resolver with the hostname of the
\* nameserver; a signature validation and a DS check with depth and zone
TraceRecord(kind, at, name, rrtype) == [kind |-> kind, at |-> at, name |-> name, rrtype |-> rrtype]

\* strings.ToLower of a hex digest
ToLowerHex(digest) == [digest EXCEPT !.upper = FALSE]

\* newAuthenticationTraceSignatureValidation: Err is "" for a nil error
newAuthenticationTraceSignatureValidation(depth, domain, zone, keyType, key, signature, records, err) ==
    [kind |-> "validation", Depth |-> depth, Domain |-> domain, Zone |-> zone,
     KeyType |-> keyType, Key |-> key, Signature |-> signature, Records |-> records,
     Err |-> err, Valid |-> (err = "")]

\* newAuthenticationTraceDelegationSignerCheck
newAuthenticationTraceDelegationSignerCheck(depth, child, parent, hash) ==
    [kind |-> "ds", Depth |-> depth, Child |-> child, Parent |-> parent,
     Hash |-> ToLowerHex(hash)]

\* AuthenticationTrace.Add and RecursiveQueryTrace.Add for the records in
\* order; the context carries the trace when tracing is enabled
Add(enabled, trace, records) ==
    IF enabled THEN [trace EXCEPT !.Records = @ \o records] ELSE trace

\* the head of Resolver.Query and of RecursiveNameserver.Query
newTrace_mutant(enabled, trace) ==
    IF enabled /\ ~trace.created THEN [created |-> TRUE, Records |-> <<>>] ELSE trace

newTrace(enabled, trace) ==
    IF enabled THEN [created |-> TRUE, Records |-> <<>>] ELSE trace

Pending == [msg |-> NoMsg, err |-> Err("pending")]
Result(msg, err) == [msg |-> msg, err |-> err]

NoLookup == [name |-> <<>>, rrtype |-> "nil", i |-> 0, calls |-> <<>>, ret |-> "nil"]
NoAuth == [msg |-> NoMsg, depth |-> 0, zss |-> <<>>, i |-> 0, valid |-> <<>>]

Shuffles(seq) ==
    {p \in [1..Len(seq) -> Range(seq)] : \A x \in Range(seq) : \E i \in 1..Len(seq) : p[i] = x}

\* getNameservers: whether it shuffles the list
shuffled_mutant(list) == Len(list) > 1

shuffled(list) == RandomNameserver /\ Len(list) > 1

\* getNameservers: the list, shuffled in place when RandomNameserver is set
getNameservers_mutant(list) == Shuffles(list)

getNameservers(list) ==
    IF shuffled(list) THEN Shuffles(list) ELSE {list}

\* what one call of NameServer.Query can bring: an error, or the reply with
\* the AD flag set or not
Outcomes(question) ==
    IF question \notin Served(world) THEN {"err"}
    ELSE IF env = "reliable" THEN {"noad"}
    ELSE {"err", "ad", "noad"}

\* "result, totalDuration, err" of the iteration that got a reply
replyResult_mutant(msg) ==
    IF ~msg.ad THEN Result(NoMsg, ErrRemoteAD) ELSE Result(msg, NoErr)

replyResult(msg) ==
    IF RemotelyAuthenticateData /\ ~msg.ad
    THEN Result(NoMsg, ErrRemoteAD)
    ELSE Result(msg, NoErr)

\* the position after an iteration that got an error: the next nameserver
nextNameserver_mutant(i) == i + 2

nextNameserver(i) == i + 1

\* Resolver.Query is called: it starts the lookup of the question
Query ==
    /\ pc = "idle"
    /\ q' = [name |-> top.name, rrtype |-> top.rrtype, i |-> 0, calls |-> <<>>,
             ret |-> "Query"]
    /\ pc' = "query"
    /\ Trace' = newTrace(EnableTrace, Trace)
    /\ UNCHANGED <<nameservers, Query_msg, ret, q_res, authVars, cfgVars, sigVars, raceVars, callVars,
                   walkVars>>

\* Resolver.query up to its loop: getNameservers and the empty-list check
query ==
    /\ pc = "query"
    /\ \E list \in getNameservers(nameservers) :
          /\ nameservers' = list
          /\ IF Len(list) < 1
             THEN /\ q_res' = Result(NoMsg, ErrNoNameservers)
                  /\ pc' = q.ret
                  /\ UNCHANGED q
             ELSE /\ q' = [q EXCEPT !.i = 1]
                  /\ pc' = "nameserver"
                  /\ UNCHANGED q_res
    /\ UNCHANGED <<Query_msg, ret, authVars, cfgVars, sigVars, raceVars, callVars,
                   walkVars, Trace>>

\* one iteration of the loop of Resolver.query: the nameserver at q.i is
\* called; an error moves on to the next one, and past the last one the
\* lookup fails; a reply ends the lookup
queryNameserverLoop ==
    /\ pc = "nameserver"
    /\ \E outcome \in Outcomes(Question(q.name, q.rrtype)) :
          LET called == Append(q.calls, [ns |-> nameservers[q.i], outcome |-> outcome])
              msg == Msg(Question(q.name, q.rrtype),
                         Answer(world, Question(q.name, q.rrtype)), outcome = "ad")
          IN  IF outcome = "err"
              THEN IF nextNameserver(q.i) > Len(nameservers)
                   THEN /\ q' = [q EXCEPT !.calls = called]
                        /\ q_res' = Result(NoMsg, ErrNoAnswer)
                        /\ pc' = q.ret
                        /\ UNCHANGED Trace
                   ELSE /\ q' = [q EXCEPT !.calls = called, !.i = nextNameserver(q.i)]
                        /\ UNCHANGED <<q_res, pc, Trace>>
              ELSE /\ q' = [q EXCEPT !.calls = called]
                   /\ q_res' = replyResult(msg)
                   /\ pc' = q.ret
                   /\ Trace' = IF replyResult(msg).err # NoErr THEN Trace
                               ELSE Add(EnableTrace, Trace,
                                        <<TraceRecord("lookup", 0, q.name, q.rrtype)>>)
    /\ UNCHANGED <<nameservers, Query_msg, ret, authVars, cfgVars, sigVars, raceVars, callVars,
                   walkVars>>

\* what Resolver.Query returns when Authenticate returned err
authReturn_mutant(msg, err) == Result(msg, err)

authReturn(msg, err) == IF err # NoErr THEN Result(NoMsg, err) ELSE Result(msg, NoErr)

\* Resolver.Query after the lookup: an error is returned, and so is the reply
\* when it is not authenticated locally; otherwise Authenticate is entered
QueryReturn ==
    /\ pc = "Query"
    /\ IF q_res.err # NoErr
       THEN /\ ret' = Result(NoMsg, q_res.err)
            /\ pc' = "done"
            /\ UNCHANGED authVars
       ELSE IF ~LocallyAuthenticateData
       THEN /\ ret' = Result(q_res.msg, NoErr)
            /\ pc' = "done"
            /\ UNCHANGED authVars
       ELSE /\ au' = [NoAuth EXCEPT !.msg = q_res.msg]
            /\ pc' = "Authenticate"
            /\ UNCHANGED <<ret, h_auth, h_err, h_ksk, h_linked, h_keyed>>
    /\ Query_msg' = q_res.msg
    /\ UNCHANGED <<nameservers, q, q_res, cfgVars, sigVars, raceVars, callVars,
                   walkVars, Trace>>

-----------------------------------------------------------------------------
(* The authenticator: Resolver.Authenticate and authenticateZoneSigningKey *)

\* Authenticate returns err to Resolver.Query, which returns
AuthenticateReturns(err) ==
    /\ ret' = authReturn(Query_msg, err)
    /\ h_err' = err
    /\ pc' = "done"

\* the depth check of Authenticate
depthReached_mutant(depth) == depth > maxAuthenticationDepth

depthReached(depth) == depth >= maxAuthenticationDepth

\* Authenticate is entered with au.msg at au.depth: the depth check, then
\* authenticateZoneSigningKey partitions the Answer section
Authenticate_mutant ==
    /\ pc = "Authenticate"
    /\ h_auth' = Append(h_auth, [depth |-> au.depth, msg |-> au.msg])
    /\ LET sets == newSignatureSets(au.msg.answer)
       IN  IF sets.err # NoErr
           THEN /\ AuthenticateReturns(sets.err)
                /\ UNCHANGED au
           ELSE IF depthReached(au.depth)
           THEN /\ AuthenticateReturns(ErrMaxAuthDepth(maxAuthenticationDepth))
                /\ UNCHANGED au
           ELSE /\ au' = [au EXCEPT !.zss = sets.sets, !.i = 1, !.valid = <<>>]
                /\ pc' = "zss"
                /\ UNCHANGED <<ret, h_err>>
    /\ UNCHANGED <<nameservers, Query_msg, q, q_res, h_ksk, h_linked, h_keyed, cfgVars, sigVars, raceVars, callVars,
                   walkVars, Trace>>

Authenticate ==
    /\ pc = "Authenticate"
    /\ h_auth' = Append(h_auth, [depth |-> au.depth, msg |-> au.msg])
    /\ LET sets == newSignatureSets(au.msg.answer)
       IN  IF depthReached(au.depth)
           THEN /\ AuthenticateReturns(ErrMaxAuthDepth(maxAuthenticationDepth))
                /\ UNCHANGED au
           ELSE IF sets.err # NoErr
           THEN /\ AuthenticateReturns(sets.err)
                /\ UNCHANGED au
           ELSE /\ au' = [au EXCEPT !.zss = sets.sets, !.i = 1, !.valid = <<>>]
                /\ pc' = "zss"
                /\ UNCHANGED <<ret, h_err>>
    /\ UNCHANGED <<nameservers, Query_msg, q, q_res, h_ksk, h_linked, h_keyed, cfgVars, sigVars, raceVars, callVars,
                   walkVars, Trace>>

\* the head of the loop over zoneSignatureSets: the DNSKEY lookup for the
\* signer of the next set, or, past the last set, the return to Authenticate
zoneSignatureSet ==
    /\ pc = "zss"
    /\ IF au.i > Len(au.zss)
       THEN /\ pc' = "chain"
            /\ UNCHANGED q
       ELSE /\ q' = [name |-> au.zss[au.i].signature.rdata.signerName,
                     rrtype |-> TypeDNSKEY, i |-> 0, calls |-> <<>>, ret |-> "keys"]
            /\ pc' = "query"
    /\ UNCHANGED <<nameservers, Query_msg, ret, q_res, authVars, cfgVars, sigVars, raceVars, callVars,
                   walkVars, Trace>>

\* the key type looked for in the DNSKEY response for a set that covers answers
zoneKeyType_mutant == DNSKEY_KSK

zoneKeyType == DNSKEY_ZSK

\* the KSK step for the sets of the DNSKEY response, in order: the error of
\* the first set that fails, and the sets verified before it
verifyKeySets(sets, keys) ==
    LET keyed == [k \in 1..Len(sets) |-> withKey(sets[k], keys, DNSKEY_KSK)]
        errOf(k) == IF keyed[k].key = NoKey THEN ErrNoMatchingKey
                    ELSE IF verify(keyed[k]) # "" THEN ErrVerify(verify(keyed[k]))
                    ELSE NoErr
        failed == {k \in 1..Len(sets) : errOf(k) # NoErr}
    IN  IF failed = {} THEN [err |-> NoErr, sets |-> keyed]
        ELSE [err |-> errOf(CHOOSE k \in failed : \A j \in failed : k <= j), sets |-> <<>>]

\* the body of the loop over zoneSignatureSets after the DNSKEY lookup
\* returned: keys the DNSKEY records of the response, keysSignatureSets the
\* result of newSignatureSets on it; [err, sets], sets the verified KSK sets
authenticateZoneSigningKey(zss, keys, keysSignatureSets) ==
    LET keyed == withKey(zss, keys, zoneKeyType)
    IN  IF keyed.key = NoKey THEN [err |-> ErrNoMatchingKey, sets |-> <<>>]
        ELSE IF verify(keyed) # "" THEN [err |-> ErrVerify(verify(keyed)), sets |-> <<>>]
        ELSE IF keysSignatureSets.err # NoErr THEN [err |-> keysSignatureSets.err, sets |-> <<>>]
        ELSE verifyKeySets(keysSignatureSets.sets, keys)

\* the sets that the loop body brings to the key search, in order, each with
\* the key found for it or NoKey: the set of the answer, and, when it verified
\* and the DNSKEY response was partitioned, the sets of the response up to the
\* first that fails
keySearches(zss, keys, keysSignatureSets) ==
    LET keyed == withKey(zss, keys, zoneKeyType)
        kss == keysSignatureSets.sets
        stops == {k \in 1..Len(kss) :
                    \E ss \in {withKey(kss[k], keys, DNSKEY_KSK)} :
                        ss.key = NoKey \/ verify(ss) # ""}
        last == IF stops = {} THEN Len(kss) ELSE CHOOSE k \in stops : \A j \in stops : k <= j
    IN  <<[step |-> "zsk", set |-> keyed]>>
        \o (IF keyed.key = NoKey \/ verify(keyed) # "" \/ keysSignatureSets.err # NoErr
            THEN <<>>
            ELSE [k \in 1..last |-> [step |-> "ksk", set |-> withKey(kss[k], keys, DNSKEY_KSK)]])

\* the trace records of the signature validations: one for every set that
\* was verified, whatever the outcome
validations_mutant(depth, domain, searched) ==
    LET verified(x) == x.set.key # NoKey /\ verify(x.set) = ""
        done == SelectSeq(searched, verified)
    IN  [k \in 1..Len(done) |->
            newAuthenticationTraceSignatureValidation(
                depth, domain, done[k].set.signature.rdata.signerName, done[k].step,
                done[k].set.key, done[k].set.signature, done[k].set.records,
                verify(done[k].set))]

validations(depth, domain, searched) ==
    LET verified(x) == x.set.key # NoKey
        done == SelectSeq(searched, verified)
    IN  [k \in 1..Len(done) |->
            newAuthenticationTraceSignatureValidation(
                depth, domain, done[k].set.signature.rdata.signerName, done[k].step,
                done[k].set.key, done[k].set.signature, done[k].set.records,
                verify(done[k].set))]

\* the DNSKEY lookup returned: the ZSK step for the set at au.i and the KSK
\* step for the sets of the response
zoneSigningKey ==
    /\ pc = "keys"
    /\ IF q_res.err # NoErr
       THEN /\ AuthenticateReturns(q_res.err)
            /\ UNCHANGED <<au, h_ksk, h_keyed, Trace>>
       ELSE \E keys \in {extractRecordsOfType(TypeDNSKEY, q_res.msg.answer)} :
            \E keysSignatureSets \in {newSignatureSets(q_res.msg.answer)} :
            \E r \in {authenticateZoneSigningKey(au.zss[au.i], keys, keysSignatureSets)} :
            \E searched \in {keySearches(au.zss[au.i], keys, keysSignatureSets)} :
                /\ h_keyed' = h_keyed \cup
                      {[depth |-> au.depth, asked |-> q.name, step |-> x.step,
                        signature |-> x.set.signature, key |-> x.set.key] :
                          x \in Range(searched)}
                /\ Trace' = Add(EnableTrace, Trace, validations(au.depth, au.msg.question.name, searched))
                /\ IF r.err # NoErr
                   THEN /\ AuthenticateReturns(r.err)
                        /\ UNCHANGED <<au, h_ksk>>
                   ELSE /\ au' = [au EXCEPT !.valid = au.valid \o r.sets, !.i = au.i + 1]
                        /\ h_ksk' = h_ksk \cup {[depth |-> au.depth, key |-> r.sets[k].key] :
                                                   k \in 1..Len(r.sets)}
                        /\ pc' = "zss"
                        /\ UNCHANGED <<ret, h_err>>
    /\ UNCHANGED <<nameservers, Query_msg, q, q_res, h_auth, h_linked, cfgVars, sigVars, raceVars, callVars,
                   walkVars>>

\* the first DS of answers that matches key, or 0
firstMatch(answers, key) ==
    LET hits == {i \in 1..Len(answers) : matchesDS(answers[i], key)}
    IN  IF hits = {} THEN 0 ELSE CHOOSE i \in hits : \A j \in hits : i <= j

\* the loop over the DS records reads keyDS.KeyTag of every record up to the
\* first match: it dereferences the nil pointer, and the goroutine panics,
\* when ToDS derives no DS for one of them
nilDereference(answers, key) ==
    \E i \in 1..Len(answers) :
        /\ ToDS(key, answers[i].rdata.digestType) = NilDS
        /\ firstMatch(answers, key) \in {0} \cup (i + 1)..Len(answers)

\* the loop of Authenticate over keySignatureSets, which returns in its first
\* iteration: at the root the anchors are compared, elsewhere the DS of the
\* signer is looked up; an anchor of a digest type without derivation that is
\* compared ends the goroutine
keySignatureSet ==
    /\ pc = "chain"
    /\ IF Len(au.valid) = 0
       THEN /\ AuthenticateReturns(ErrNoSets)
            /\ UNCHANGED <<q, h_linked, Trace>>
       ELSE LET kss == au.valid[1]
            IN  IF kss.signature.rdata.signerName = Root
                THEN IF nilDereference(RootDNSSECRecords, kss.key)
                     THEN /\ pc' = "panic"
                          /\ UNCHANGED <<ret, h_err, q, h_linked, Trace>>
                     ELSE IF firstMatch(RootDNSSECRecords, kss.key) # 0
                     THEN /\ AuthenticateReturns(NoErr)
                          /\ h_linked' = h_linked \cup {[depth |-> au.depth, key |-> kss.key]}
                          /\ Trace' = Add(EnableTrace, Trace,
                                          <<newAuthenticationTraceDelegationSignerCheck(
                                              au.depth, au.msg.question.name,
                                              kss.signature.rdata.signerName,
                                              ToDS(kss.key, RootDNSSECRecords[firstMatch(RootDNSSECRecords, kss.key)].rdata.digestType).rdata.digest)>>)
                          /\ UNCHANGED q
                     ELSE /\ AuthenticateReturns(ErrDSRoot)
                          /\ UNCHANGED <<q, h_linked, Trace>>
                ELSE /\ q' = [name |-> kss.signature.rdata.signerName, rrtype |-> TypeDS,
                              i |-> 0, calls |-> <<>>, ret |-> "ds"]
                     /\ pc' = "query"
                     /\ UNCHANGED <<ret, h_err, h_linked, Trace>>
    /\ UNCHANGED <<nameservers, Query_msg, q_res, au, h_auth, h_ksk, h_keyed, cfgVars, sigVars, raceVars, callVars,
                   walkVars>>

\* the DS lookup returned: a DS that matches the KSK leads to Authenticate on
\* the DS response, one level deeper; a DS of a digest type without
\* derivation that is compared before it ends the goroutine
delegationSigner ==
    /\ pc = "ds"
    /\ IF q_res.err # NoErr
       THEN /\ AuthenticateReturns(q_res.err)
            /\ UNCHANGED <<au, h_linked, Trace>>
       ELSE LET kss == au.valid[1]
                answers == extractRecordsOfType(TypeDS, q_res.msg.answer)
            IN  IF nilDereference(answers, kss.key)
                THEN /\ pc' = "panic"
                     /\ UNCHANGED <<ret, h_err, au, h_linked, Trace>>
                ELSE IF firstMatch(answers, kss.key) # 0
                THEN /\ au' = [NoAuth EXCEPT !.msg = q_res.msg, !.depth = (au.depth + 1) % 256]
                     /\ h_linked' = h_linked \cup {[depth |-> au.depth, key |-> kss.key]}
                     /\ pc' = "Authenticate"
                     /\ Trace' = Add(EnableTrace, Trace,
                            <<newAuthenticationTraceDelegationSignerCheck(
                                au.depth, au.msg.question.name,
                                kss.signature.rdata.signerName,
                                ToDS(kss.key, answers[firstMatch(answers, kss.key)].rdata.digestType).rdata.digest)>>)
                     /\ UNCHANGED <<ret, h_err>>
                ELSE /\ AuthenticateReturns(ErrDSParent)
                     /\ UNCHANGED <<au, h_linked, Trace>>
    /\ UNCHANGED <<nameservers, Query_msg, q, q_res, h_auth, h_ksk, h_keyed, cfgVars, sigVars, raceVars, callVars,
                   walkVars>>

-----------------------------------------------------------------------------
(* The iterative resolver: RecursiveNameserver and zoneResolver.  The tree  *)
(* of zoneResolvers is a function from paths to nodes: the root is the      *)
(* empty path, and the child stored under name n in the children map of the *)
(* node at path p is the node at Append(p, n).                              *)

\* largest maxQueryCount configured (NewRecursiveNameserver sets 30)
MaxQueryCount == 1
\* root servers seeded by newRootZoneResolver (the source seeds thirteen)
RootServers == 1
\* top-level Queries made on one RecursiveNameserver
MaxQueries == 2
\* transport calls that the network carries to a reply before it goes down
\* for good: enough for every call that the budget of one Query allows
MaxCarried == MaxQueryCount + 1
\* transport calls of one Query that are followed: one more than the values
\* of the 8-bit queryCounter
MaxWalkCalls == 257

TypeNS == "NS"
TypeSOA == "SOA"

TypeCNAME == "CNAME"

RR_NS(zone, ns) == RR(TypeNS, zone, [ns |-> ns])
RR_CNAME(name, target) == RR(TypeCNAME, name, [target |-> target])
RR_SOA(zone) == RR(TypeSOA, zone, [ns |-> <<>>])

\* a nameserver hostname of the zone c., and a zone that t.e.c. is not below
NsHost == <<"n", ".", "c", ".">>
OtherZone == <<"o", ".">>

\* the endpoints: none known, one made by NewUdpNameserver, one made by the
\* configured factory
NilNS == [by |-> "nil", address |-> "", port |-> ""]
NewUdpNameserver(address, port) == [by |-> "NewUdpNameserver", address |-> address, port |-> port]
factory(address, port) == [by |-> "factory", address |-> address, port |-> port]

\* newZoneResolver
newZoneResolver == [nsA |-> [h \in {} |-> NilNS]]

RootHosts == {<<"r", ToString(i), ".">> : i \in 1..RootServers}

\* newRootZoneResolver
newRootZoneResolver ==
    (<<>> :> [nsA |-> [h \in RootHosts |-> NewUdpNameserver("198.41.0.4", "53")]])

\* the keys of z.children
Children(tree, z) ==
    {p[Len(p)] : p \in {c \in DOMAIN tree : Len(c) = Len(z) + 1 /\ SubSeq(c, 1, Len(z)) = z}}

\* what NameServer.Query gives back: an error, or a message
Reply(err, answer, authoritative, ns, extra) ==
    [err |-> err, answer |-> answer, authoritative |-> authoritative, ns |-> ns, extra |-> extra]
NoReply == Reply(FALSE, <<>>, FALSE, <<>>, <<>>)
TransportError == Reply(TRUE, <<>>, FALSE, <<>>, <<>>)

\* the zones that a nameserver asked for name may refer to: the root, c., a
\* zone the name is not below and, for the name t.xe.c., the zone e.c., whose
\* name that name ends with
ReferralZones(name) ==
    {Root, Com, OtherZone} \cup (IF name = TeExampleCom THEN {ExampleCom} ELSE {})

\* the referrals a nameserver may send: an Authority section that is empty,
\* holds an SOA record, or names NsHost as the nameserver of a zone, the last
\* with or without a glue record in the Additional section, and for the zone
\* c. also with two glue records of different addresses
Referrals(name) ==
    {Reply(FALSE, <<>>, FALSE, <<>>, <<>>), Reply(FALSE, <<>>, FALSE, <<RR_SOA(Com)>>, <<>>)}
    \cup {Reply(FALSE, <<>>, FALSE, <<RR_NS(zone, NsHost)>>, extra) :
              zone \in ReferralZones(name),
              extra \in {<<>>, <<RR_A(NsHost, "2.2.2.2")>>}}
    \cup {Reply(FALSE, <<>>, FALSE, <<RR_NS(Com, NsHost)>>,
                <<RR_A(NsHost, "2.2.2.2"), RR_A(NsHost, "3.3.3.3")>>)}

\* the replies of a nameserver to a question for name: a transport failure,
\* an answer, an answer that begins with a CNAME record, an authoritative
\* reply without answer, or a referral; once the network is down every call
\* is a transport failure.  Nameservers that are referring answer every
\* question with the referral 'c. NS n.c.' without glue.
Replies(name) ==
    IF env = "referring" THEN {Reply(FALSE, <<>>, FALSE, <<RR_NS(Com, NsHost)>>, <<>>)} ELSE
    IF carried >= MaxCarried THEN {TransportError} ELSE
    {TransportError}
    \cup {Reply(FALSE, <<RR_A(name, "1.1.1.1")>>, aa, <<>>, <<>>) : aa \in BOOLEAN}
    \cup {Reply(FALSE, <<RR_CNAME(name, Other), RR_A(Other, "4.4.4.4")>>, TRUE, <<>>, <<>>)}
    \cup {Reply(FALSE, <<>>, TRUE, <<RR_NS(Com, NsHost)>>, <<>>)}
    \cup Referrals(name)

\* errors of the walk: hard is whether errors.As(err, &hardError) holds
WalkErr(hard, text, n) == [hard |-> hard, text |-> text, n |-> n]
WalkNoErr == WalkErr(FALSE, "nil", 0)
ErrUnableToFind == WalkErr(FALSE, "unable to find answer", 0)
ErrTransport == WalkErr(FALSE, "transport", 0)
ErrRecordDoesNotExist == WalkErr(TRUE, "record does not exist", 0)
ErrMaxQueryCount(n) == WalkErr(TRUE, "max allowed query count reached", n)

\* what a call gave back; NoReturn while no call has just returned
Returned(msg, err) == [msg |-> msg, err |-> err]
NoReturn == Returned(NoReply, WalkErr(FALSE, "none", 0))

\* m[k] = v for a Go map m
setKey(m, k, v) == [x \in DOMAIN m \cup {k} |-> IF x = k THEN v ELSE m[x]]

\* queryNameserver, the loop over msg.Ns: the child named by each record is
\* created when missing, and an NS record adds its target with no endpoint
\* unless the child's map has the key r.Hdr.Name
RECURSIVE addNs(_, _, _)
addNs(tree, z, records) ==
    IF records = <<>> THEN tree
    ELSE LET record == Head(records)
             child == Append(z, record.name)
             made == IF child \in DOMAIN tree THEN tree
                     ELSE tree @@ (child :> newZoneResolver)
         IN  addNs(IF record.rrtype = TypeNS /\ record.name \notin DOMAIN made[child].nsA
                   THEN [made EXCEPT ![child].nsA = setKey(@, record.rdata.ns, NilNS)]
                   ELSE made,
                   z, Tail(records))

\* queryNameserver, the loop over msg.Extra: an A record gives an endpoint of
\* the factory to its owner in every child of z that has the owner as a key
RECURSIVE addGlue(_, _, _)
addGlue(tree, z, records) ==
    IF records = <<>> THEN tree
    ELSE LET r == Head(records)
             glued == [p \in DOMAIN tree |->
                         IF /\ Len(p) = Len(z) + 1 /\ SubSeq(p, 1, Len(z)) = z
                            /\ r.rrtype = TypeA
                            /\ r.name \in DOMAIN tree[p].nsA
                         THEN [tree[p] EXCEPT !.nsA[r.name] = factory(r.rdata.a, "53")]
                         ELSE tree[p]]
         IN  addGlue(glued, z, Tail(records))

\* a call in progress: fn the function, z the node it runs on, its
\* arguments, where it stands, and the range loop it is in (snap the keys of
\* the map when the loop began, seen the keys produced so far)
Frame(fn, z, nsHostname, ns, name, rrtype, stage, snap) ==
    [fn |-> fn, z |-> z, nsHostname |-> nsHostname, ns |-> ns, name |-> name,
     rrtype |-> rrtype, stage |-> stage, snap |-> snap, seen |-> {}]

\* the call z.query(name, rrtype): the name is brought to one trailing dot
queryFrame(tree, z, name, rrtype) ==
    Frame("query", z, <<>>, NilNS, TrimRightDots(name) \o <<".">>, rrtype, "known",
          DOMAIN tree[z].nsA)

\* the call z.queryNameserver(nsHostname, ns, name, rrtype)
queryNameserverFrame(z, nsHostname, ns, name, rrtype) ==
    Frame("queryNameserver", z, nsHostname, ns, name, rrtype, "entry", {})

Top == stack[Len(stack)]
Callers == SubSeq(stack, 1, Len(stack) - 1)

\* the running call returns (msg, err) to its caller
Return(msg, err) ==
    /\ stack' = Callers
    /\ returned' = Returned(msg, err)

\* the names the top-level Queries ask for
WalkNames == {TestExampleCom}

restVars == <<sigVars, cfgVars, stubVars, authVars, raceVars, callVars>>

\* RecursiveNameserver.Query: a new queryCounter, and query on the root
RecursiveNameserverQuery_mutant ==
    /\ walk_pc \in {"idle", "returned"}
    /\ h_queries < walk_limit
    /\ \E name \in walk_names :
          stack' = <<queryFrame(rootZoneResolver, <<>>, name, TypeA)>>
    /\ returned' = NoReturn
    /\ walk_pc' = "run"
    /\ walk_Trace' = newTrace(walk_EnableTrace, walk_Trace)
    /\ h_calls' = 0
    /\ h_nodata' = FALSE
    /\ h_queries' = h_queries + 1
    /\ UNCHANGED <<rootZoneResolver, maxQueryCount, queryCounter, walk_ret, carried, restVars>>

RecursiveNameserverQuery ==
    /\ walk_pc \in {"idle", "returned"}
    /\ h_queries < walk_limit
    /\ \E name \in walk_names :
          stack' = <<queryFrame(rootZoneResolver, <<>>, name, TypeA)>>
    /\ queryCounter' = 0
    /\ returned' = NoReturn
    /\ walk_pc' = "run"
    /\ walk_Trace' = newTrace(walk_EnableTrace, walk_Trace)
    /\ h_calls' = 0
    /\ h_nodata' = FALSE
    /\ h_queries' = h_queries + 1
    /\ UNCHANGED <<rootZoneResolver, maxQueryCount, walk_ret, carried, restVars>>

\* zoneResolver.query, one turn of the first loop over z.nsA: a nameserver
\* with a known endpoint is asked, one without is passed over
queryKnown ==
    /\ walk_pc = "run" /\ stack # <<>> /\ returned = NoReturn
    /\ Top.fn = "query" /\ Top.stage = "known"
    /\ \E nsA \in {rootZoneResolver[Top.z].nsA} :
          \/ \E hostname \in DOMAIN nsA \ Top.seen :
                IF nsA[hostname] # NilNS
                THEN stack' = Callers \o
                        << [Top EXCEPT !.seen = @ \cup {hostname}, !.stage = "knownCall",
                                       !.nsHostname = hostname],
                           queryNameserverFrame(Top.z, hostname, nsA[hostname],
                                                Top.name, Top.rrtype) >>
                ELSE stack' = Append(Callers, [Top EXCEPT !.seen = @ \cup {hostname}])
          \/ /\ Top.snap \subseteq Top.seen
             /\ stack' = Append(Callers, [Top EXCEPT !.stage = "unknown", !.seen = {},
                                                     !.snap = DOMAIN nsA])
    /\ UNCHANGED <<rootZoneResolver, maxQueryCount, walk_pc, queryCounter, walk_ret,
                   returned, carried, h_calls, h_queries, h_nodata, restVars, walk_Trace>>

\* zoneResolver.query, one turn of the second loop over z.nsA: the hostname
\* of a nameserver without endpoint is resolved from the root; when the loop
\* ends the call fails with "unable to find answer"
queryUnknown ==
    /\ walk_pc = "run" /\ stack # <<>> /\ returned = NoReturn
    /\ Top.fn = "query" /\ Top.stage = "unknown"
    /\ \E nsA \in {rootZoneResolver[Top.z].nsA} :
          \/ /\ \E hostname \in DOMAIN nsA \ Top.seen :
                   IF nsA[hostname] = NilNS
                   THEN stack' = Callers \o
                           << [Top EXCEPT !.seen = @ \cup {hostname}, !.stage = "resolve",
                                          !.nsHostname = hostname],
                              queryFrame(rootZoneResolver, <<>>, hostname, TypeA) >>
                   ELSE stack' = Append(Callers, [Top EXCEPT !.seen = @ \cup {hostname}])
             /\ UNCHANGED returned
          \/ /\ Top.snap \subseteq Top.seen
             /\ Return(NoReply, ErrUnableToFind)
    /\ UNCHANGED <<rootZoneResolver, maxQueryCount, walk_pc, queryCounter, walk_ret,
                   carried, h_calls, h_queries, h_nodata, restVars, walk_Trace>>

\* what query and queryNameserver do with the result of a queryNameserver or
\* child.query call: an answer and a hard error are returned, anything else
\* lets the loop go on at stage next
afterCall_mutant(next) ==
    IF returned.err = WalkNoErr /\ Len(returned.msg.answer) > 0
    THEN Return(returned.msg, WalkNoErr)
    ELSE IF returned.err # WalkNoErr
    THEN Return(NoReply, returned.err)
    ELSE /\ stack' = Append(Callers, [Top EXCEPT !.stage = next])
         /\ returned' = NoReturn

afterCall(next) ==
    IF returned.err = WalkNoErr /\ Len(returned.msg.answer) > 0
    THEN Return(returned.msg, WalkNoErr)
    ELSE IF returned.err.hard
    THEN Return(NoReply, returned.err)
    ELSE /\ stack' = Append(Callers, [Top EXCEPT !.stage = next])
         /\ returned' = NoReturn

\* zoneResolver.query, after a call it made returned; the type assertion
\* msg.Answer[0].(*dns.A) panics when the first record of the answer for a
\* nameserver hostname is not an A record
queryResume ==
    /\ walk_pc = "run" /\ stack # <<>> /\ returned # NoReturn
    /\ Top.fn = "query"
    /\ IF Top.stage = "knownCall"
       THEN afterCall("known") /\ UNCHANGED <<rootZoneResolver, walk_pc>>
       ELSE IF Top.stage = "unknownCall"
       THEN afterCall("unknown") /\ UNCHANGED <<rootZoneResolver, walk_pc>>
       ELSE \* "resolve": the root's query for the hostname returned
            IF returned.err # WalkNoErr \/ Len(returned.msg.answer) = 0
            THEN /\ IF returned.err.hard
                    THEN Return(NoReply, returned.err)
                    ELSE /\ stack' = Append(Callers, [Top EXCEPT !.stage = "unknown"])
                         /\ returned' = NoReturn
                 /\ UNCHANGED <<rootZoneResolver, walk_pc>>
            ELSE IF returned.msg.answer[1].rrtype # TypeA
            THEN /\ walk_pc' = "panic"
                 /\ UNCHANGED <<rootZoneResolver, stack, returned>>
            ELSE \E ns \in {NewUdpNameserver(returned.msg.answer[1].rdata.a, "53")} :
                 /\ walk_pc' = "run"
                 /\ rootZoneResolver' =
                        [rootZoneResolver EXCEPT ![Top.z].nsA[Top.nsHostname] = ns]
                 /\ stack' = Callers \o
                        << [Top EXCEPT !.stage = "unknownCall"],
                           queryNameserverFrame(Top.z, Top.nsHostname, ns,
                                                Top.name, Top.rrtype) >>
                 /\ returned' = NoReturn
    /\ UNCHANGED <<maxQueryCount, queryCounter, walk_ret, carried, h_calls,
                   h_queries, h_nodata, restVars, walk_Trace>>

\* queryNameserver, a reply without answer: whether the record does not exist
recordDoesNotExist_mutant(msg) == FALSE

recordDoesNotExist(msg) == msg.authoritative

\* the budget check of queryNameserver
budgetSpent_mutant(count) == FALSE

budgetSpent(count) == count > maxQueryCount

\* zoneResolver.queryNameserver up to its loop over the children: the budget
\* check, the transport call, and the reply: an error and an answer are
\* returned, an authoritative reply without answer is a hard error, and a
\* referral is entered into the tree
queryNameserver ==
    /\ walk_pc = "run" /\ stack # <<>> /\ returned = NoReturn
    /\ Top.fn = "queryNameserver" /\ Top.stage = "entry"
    /\ IF budgetSpent(queryCounter)
       THEN /\ Return(NoReply, ErrMaxQueryCount(queryCounter))
            /\ UNCHANGED <<rootZoneResolver, queryCounter, carried, walk_Trace, h_calls,
                           h_nodata>>
       ELSE /\ h_calls < MaxWalkCalls
            /\ queryCounter' = (queryCounter + 1) % 256
            /\ h_calls' = h_calls + 1
            /\ \E msg \in Replies(Top.name) :
                  /\ carried' = IF msg.err THEN carried ELSE carried + 1
                  /\ walk_Trace' =
                        IF msg.err THEN walk_Trace
                        ELSE Add(walk_EnableTrace, walk_Trace,
                                 <<TraceRecord("lookup", Top.nsHostname, Top.name, Top.rrtype)>>)
                  /\ h_nodata' = (h_nodata \/ (~msg.err /\ msg.authoritative
                                                 /\ Len(msg.answer) = 0))
                  /\ IF msg.err
                     THEN Return(NoReply, ErrTransport) /\ UNCHANGED rootZoneResolver
                     ELSE IF Len(msg.answer) > 0
                     THEN Return(msg, WalkNoErr) /\ UNCHANGED rootZoneResolver
                     ELSE IF recordDoesNotExist(msg)
                     THEN Return(NoReply, ErrRecordDoesNotExist) /\ UNCHANGED rootZoneResolver
                     ELSE \E tree \in {addGlue(addNs(rootZoneResolver, Top.z, msg.ns),
                                               Top.z, msg.extra)} :
                          /\ rootZoneResolver' = tree
                          /\ stack' = Append(Callers,
                                 [Top EXCEPT !.stage = "children",
                                             !.snap = Children(tree, Top.z)])
                          /\ UNCHANGED returned
    /\ UNCHANGED <<maxQueryCount, walk_pc, walk_ret, h_queries, restVars>>

\* zoneResolver.queryNameserver, one turn of the loop over z.children: query
\* on a child whose name is a suffix of the name asked for; when the loop ends
\* the call fails with "unable to find answer"
queryNameserverChildren ==
    /\ walk_pc = "run" /\ stack # <<>> /\ returned = NoReturn
    /\ Top.fn = "queryNameserver" /\ Top.stage = "children"
    /\ \/ /\ \E childZoneName \in Children(rootZoneResolver, Top.z) \ Top.seen :
                IF HasSuffix(Top.name, childZoneName)
                THEN stack' = Callers \o
                        << [Top EXCEPT !.seen = @ \cup {childZoneName}, !.stage = "childCall"],
                           queryFrame(rootZoneResolver, Append(Top.z, childZoneName),
                                      Top.name, Top.rrtype) >>
                ELSE stack' = Append(Callers, [Top EXCEPT !.seen = @ \cup {childZoneName}])
          /\ UNCHANGED returned
       \/ /\ Top.snap \subseteq Top.seen
          /\ Return(NoReply, ErrUnableToFind)
    /\ UNCHANGED <<rootZoneResolver, maxQueryCount, walk_pc, queryCounter, walk_ret,
                   carried, h_calls, h_queries, h_nodata, restVars, walk_Trace>>

\* zoneResolver.queryNameserver, after child.query returned
queryNameserverResume ==
    /\ walk_pc = "run" /\ stack # <<>> /\ returned # NoReturn
    /\ Top.fn = "queryNameserver" /\ Top.stage = "childCall"
    /\ afterCall("children")
    /\ UNCHANGED <<rootZoneResolver, maxQueryCount, walk_pc, queryCounter, walk_ret,
                   carried, h_calls, h_queries, h_nodata, restVars, walk_Trace>>

\* RecursiveNameserver.Query returns what the root's query returned
RecursiveNameserverQueryReturn ==
    /\ walk_pc = "run" /\ stack = <<>> /\ returned # NoReturn
    /\ walk_ret' = returned
    /\ returned' = NoReturn
    /\ walk_pc' = "returned"
    /\ UNCHANGED <<rootZoneResolver, maxQueryCount, queryCounter, stack, carried,
                   h_calls, h_queries, h_nodata, restVars, walk_Trace>>

\* the variables of the iterative resolver, at rest
WalkOff ==
    /\ rootZoneResolver = newRootZoneResolver
    /\ maxQueryCount = 0
    /\ walk_Trace = NilTrace
    /\ walk_EnableTrace = FALSE
    /\ walk_names = {}
    /\ walk_limit = 0
    /\ walk_pc = "off"
    /\ queryCounter = 0
    /\ walk_ret = NoReturn
    /\ stack = <<>>
    /\ returned = NoReturn
    /\ carried = 0
    /\ h_calls = 0
    /\ h_nodata = FALSE
    /\ h_queries = 0

-----------------------------------------------------------------------------
(* newSignatureSets on its own: every input up to MaxLen records *)

SigUniverse ==
    { RR_A(TestExampleCom, "1.1.1.1"),
      RR_A(TeExampleCom, "3.3.3.3"),
      RR_A(Other, "2.2.2.2"),
      RR_DNSKEY(ExampleCom, DNSKEY_ZSK, "zsk.e", 11),
      RR_RRSIG(TestExampleCom, TypeA, ExampleCom, 3, 11, TRUE, "zsk.e", {}),
      RR_RRSIG(TestExampleCom, TypeA, ExampleCom, 2, 11, TRUE, "zsk.e", {}),
      RR_RRSIG(TestExampleCom, TypeA, Com, 3, 21, TRUE, "zsk.c", {}),
      RR_RRSIG(ExampleCom, TypeDNSKEY, ExampleCom, 2, 12, TRUE, "ksk.e", {}) }

NoResult == [err |-> Err("pending"), sets |-> <<>>]

\* the variables of the stub client and the authenticator, at rest
StubIdle ==
    /\ nameservers = <<>>
    /\ RootDNSSECRecords = <<>>
    /\ LocallyAuthenticateData = FALSE
    /\ RemotelyAuthenticateData = FALSE
    /\ RandomNameserver = FALSE
    /\ Trace = NilTrace
    /\ EnableTrace = FALSE
    /\ maxAuthenticationDepth = 0
    /\ world = {}
    /\ top = Question(<<>>, "nil")
    /\ pc = "off"
    /\ Query_msg = NoMsg
    /\ ret = Pending
    /\ q = NoLookup
    /\ q_res = Pending
    /\ au = NoAuth
    /\ h_auth = <<>>
    /\ h_err = Err("pending")
    /\ h_ksk = {}
    /\ h_linked = {}
    /\ h_keyed = {}
    /\ conc = <<>>

\* the same, and the nameservers of the iterative resolver reply as they please
StubOff == StubIdle /\ env = "off"

CallOff ==
    /\ call_in = <<>>
    /\ call_out = <<>>
    /\ call_pc = "off"

SigOff ==
    /\ ss_in = <<>>
    /\ ss_out = NoResult
    /\ ss_pc = "off"

InitSig ==
    /\ ss_in \in SeqsUpTo(SigUniverse, MaxLen)
    /\ ss_out = NoResult
    /\ ss_pc = "call"
    /\ StubOff
    /\ WalkOff
    /\ CallOff

SigApply ==
    /\ ss_pc = "call"
    /\ ss_out' = newSignatureSets(ss_in)
    /\ ss_pc' = "returned"
    /\ UNCHANGED <<ss_in, cfgVars, stubVars, authVars, walkVars, raceVars, callVars>>

NextSig == SigApply

SpecSig == InitSig /\ [][NextSig]_vars

-----------------------------------------------------------------------------
(* The stub client over unreliable nameservers, and the authenticator over  *)
(* the one reliable nameserver of the test fixture                          *)

RECURSIVE Worlds(_)
Worlds(n) ==
    IF n = 0 THEN {{}}
    ELSE LET fewer == Worlds(n - 1)
         IN  fewer \cup {w \cup {t} : w \in fewer, t \in Tampers}

TopQuestions ==
    {Question(TestExampleCom, TypeA), Question(ExampleCom, TypeDS), Question(Com, TypeDS),
     Question(ExampleCom, TypeDNSKEY)}

QueryAtRest ==
    /\ pc = "idle"
    /\ Query_msg = NoMsg
    /\ ret = Pending
    /\ q = NoLookup
    /\ q_res = Pending
    /\ au = NoAuth
    /\ h_auth = <<>>
    /\ h_err = Err("pending")
    /\ h_ksk = {}
    /\ h_linked = {}
    /\ h_keyed = {}
    /\ conc = <<>>
    /\ SigOff
    /\ CallOff
    /\ WalkOff

\* NewResolver with up to MaxNameservers nameservers, every setting of the
\* three flags, and a transport that may fail
Init ==
    /\ \E n \in 0..MaxNameservers : nameservers = [i \in 1..n |-> i]
    /\ LocallyAuthenticateData \in BOOLEAN
    /\ RemotelyAuthenticateData \in BOOLEAN
    /\ RandomNameserver \in BOOLEAN
    /\ maxAuthenticationDepth \in {2, 3}
    /\ world \in {{}, {"exp_A"}, {"bad_DS_c"}}
    /\ env = "unreliable"
    /\ top = Question(TestExampleCom, TypeA)
    /\ RootDNSSECRecords = RootAnchors
    /\ Trace = NilTrace
    /\ EnableTrace = FALSE
    /\ QueryAtRest

\* the Resolver of the authenticator's tests: one nameserver that always
\* replies, no trust in the AD bit, local authentication
InitAuth ==
    /\ nameservers = <<1>>
    /\ LocallyAuthenticateData = TRUE
    /\ RemotelyAuthenticateData = FALSE
    /\ RandomNameserver = TRUE
    /\ maxAuthenticationDepth \in 0..MaxAuthenticationDepth
    /\ world \in Worlds(MaxTampers)
    /\ env = "reliable"
    /\ top \in TopQuestions
    /\ RootDNSSECRecords = RootAnchors
    /\ Trace = NilTrace
    /\ EnableTrace = FALSE
    /\ QueryAtRest

Next ==
    \/ Query
    \/ query
    \/ queryNameserverLoop
    \/ QueryReturn
    \/ Authenticate
    \/ zoneSignatureSet
    \/ zoneSigningKey
    \/ keySignatureSet
    \/ delegationSigner

Spec == Init /\ [][Next]_vars

SpecAuth == InitAuth /\ [][Next]_vars

\* the same Resolver over the chains with at most one tamper
InitAuthOne == InitAuth /\ world \in Worlds(1)

\* Query, query and Authenticate are one synchronous call chain: a step that
\* is enabled is taken
FairSpecAuth == InitAuthOne /\ [][Next]_vars /\ WF_vars(Next)

\* the root anchors a Resolver may be configured with: none, the DS of the
\* root KSK, a DS that differs from it in key tag, in algorithm or in digest,
\* a DS that does not match followed by the one that does, and the DS of the
\* root KSK with one of digest type GOST R 34.11-94 in front of it or behind
AnchorLists ==
    LET anchor == RootAnchors[1]
    IN  { <<>>, RootAnchors,
          <<[anchor EXCEPT !.rdata.keyTag = ZskTag(Root)]>>,
          <<[anchor EXCEPT !.rdata.alg = "other"]>>,
          <<[anchor EXCEPT !.rdata.digest.of = ZskId(Root)]>>,
          <<[anchor EXCEPT !.rdata.digest.of = ZskId(Root)], anchor>>,
          <<[anchor EXCEPT !.rdata.digestType = "GOST94"], anchor>>,
          <<anchor, [anchor EXCEPT !.rdata.digestType = "GOST94"]>> }

\* the Resolver of the authenticator's tests with any of these anchor lists
\* and the largest maximum depth
InitRoot ==
    /\ nameservers = <<1>>
    /\ LocallyAuthenticateData = TRUE
    /\ RemotelyAuthenticateData = FALSE
    /\ RandomNameserver = TRUE
    /\ maxAuthenticationDepth = MaxAuthenticationDepth
    /\ world \in Worlds(1)
    /\ env = "reliable"
    /\ top \in TopQuestions
    /\ RootDNSSECRecords \in AnchorLists
    /\ Trace = NilTrace
    /\ EnableTrace = FALSE
    /\ QueryAtRest

SpecRoot == InitRoot /\ [][Next]_vars

\* newSignatureSets on its own, or at work in that Resolver
InitSigAuth == InitSig \/ InitAuthOne

NextSigAuth == NextSig \/ Next

SpecSigAuth == InitSigAuth /\ [][NextSigAuth]_vars

-----------------------------------------------------------------------------
(* The iterative resolver over nameservers that reply as they please *)

\* NewRecursiveNameserver, before any Query
WalkIdle ==
    /\ rootZoneResolver = newRootZoneResolver
    /\ walk_pc = "idle"
    /\ queryCounter = 0
    /\ walk_ret = NoReturn
    /\ stack = <<>>
    /\ returned = NoReturn
    /\ carried = 0
    /\ h_calls = 0
    /\ h_nodata = FALSE
    /\ h_queries = 0
    /\ walk_Trace = NilTrace
    /\ SigOff
    /\ CallOff

\* NewRecursiveNameserver, with maxQueryCount set to at most MaxQueryCount
WalkAtRest ==
    /\ maxQueryCount \in 0..MaxQueryCount
    /\ WalkIdle

\* the same with tracing disabled
InitWalk ==
    /\ WalkAtRest
    /\ walk_EnableTrace = FALSE
    /\ walk_names = WalkNames
    /\ walk_limit = MaxQueries
    /\ StubOff

\* the steps of a walk in progress
WalkStep ==
    \/ queryKnown
    \/ queryUnknown
    \/ queryResume
    \/ queryNameserver
    \/ queryNameserverChildren
    \/ queryNameserverResume
    \/ RecursiveNameserverQueryReturn

NextWalk == RecursiveNameserverQuery \/ WalkStep

SpecWalk == InitWalk /\ [][NextWalk]_vars

\* a Query is one synchronous call: a step of it that can be taken is taken.
\* Nothing obliges the caller to make another Query.
InitWalkFair ==
    /\ WalkAtRest
    /\ walk_EnableTrace = FALSE
    /\ walk_names = WalkNames
    /\ walk_limit = MaxQueries - 1
    /\ StubOff

FairSpecWalk == InitWalkFair /\ [][NextWalk]_vars /\ WF_vars(WalkStep)

\* the same resolver asked for t.xe.c., a name that ends with the name of the
\* zone e.c. without being below it
InitSuffix ==
    /\ WalkAtRest
    /\ walk_EnableTrace = FALSE
    /\ walk_names = {TeExampleCom}
    /\ walk_limit = MaxQueries
    /\ StubOff

SpecSuffix == InitSuffix /\ [][NextWalk]_vars

\* a RecursiveNameserver whose maxQueryCount is one of the two largest values
\* of its 8-bit type, asked once, over nameservers that are referring
InitWidth ==
    /\ maxQueryCount \in {254, 255}
    /\ WalkIdle
    /\ walk_EnableTrace = FALSE
    /\ walk_names = WalkNames
    /\ walk_limit = 1
    /\ StubIdle
    /\ env = "referring"

SpecWidth == InitWidth /\ [][NextWalk]_vars

-----------------------------------------------------------------------------
(* LookupNameserver.Query over a DNS client that fails or replies *)

RcodeSuccess == 0

\* the response codes of the replies: NOERROR, SERVFAIL, NXDOMAIN
Rcodes == {RcodeSuccess, 2, 3}

\* the transports of NewUdpNameserver, NewTcpNameserver, NewTlsNameserver
Protocols == {"udp", "tcp", "tcp-tls"}

\* dns.Fqdn: the name with a dot appended unless it ends with one
Fqdn_mutant(name) == name

Fqdn(name) ==
    IF Len(name) > 0 /\ name[Len(name)] = "." THEN name ELSE name \o <<".">>

ErrExchange == Err("exchange failed")
ErrRcode(rcode) == [kind |-> "query error returned (rcode)", cause |-> "", n |-> rcode]

\* no response: the nil *dns.Msg
NilResponse == [nil |-> TRUE, rcode |-> RcodeSuccess]
Response(rcode) == [nil |-> FALSE, rcode |-> rcode]

\* what client.Exchange can give back: an error, with or without a response,
\* or a response with some response code
Exchanges ==
    {[err |-> ErrExchange, response |-> r] : r \in {NilResponse, Response(RcodeSuccess)}}
    \cup {[err |-> NoErr, response |-> Response(rcode)] : rcode \in Rcodes}

\* LookupNameserver.Query: the message handed to the client, and what Query
\* returns for what the exchange gave back
LookupNameserverQuery(protocol, name, rrtype, exchange) ==
    LET msg == [question |-> Question(Fqdn(name), rrtype),
                RecursionDesired |-> TRUE,
                edns0 |-> [UDPSize |-> 4096, Do |-> TRUE],
                net |-> protocol]
    IN  IF exchange.err # NoErr
        THEN [sent |-> msg, response |-> exchange.response, err |-> exchange.err]
        ELSE IF exchange.response.rcode # RcodeSuccess
        THEN [sent |-> msg, response |-> exchange.response,
              err |-> ErrRcode(exchange.response.rcode)]
        ELSE [sent |-> msg, response |-> exchange.response, err |-> NoErr]

\* the names a caller may pass: with and without the trailing dot, the root,
\* the empty name
LookupNames == {TestExampleCom, <<"t", ".", "e", ".", "c">>, Root, <<>>, <<"T", ".", "e", ".", "C">>}

InitLookup ==
    /\ call_in \in [protocol : Protocols, name : LookupNames, rrtype : {TypeA, TypeDS, TypeDNSKEY},
                     exchange : Exchanges]
    /\ call_out = <<>>
    /\ call_pc = "call"
    /\ StubOff
    /\ SigOff
    /\ WalkOff

LookupApply ==
    /\ call_pc = "call"
    /\ call_out' = LookupNameserverQuery(call_in.protocol, call_in.name, call_in.rrtype,
                                         call_in.exchange)
    /\ call_pc' = "returned"
    /\ UNCHANGED <<call_in, sigVars, cfgVars, stubVars, authVars, walkVars, raceVars>>

NextLookup == LookupApply

SpecLookup == InitLookup /\ [][NextLookup]_vars

-----------------------------------------------------------------------------
(* The typed helpers of the Resolver over what Resolver.Query returns *)

TypeANY == "ANY"

\* QueryA .. QueryDNSKEY and QueryANY on the result of Resolver.Query
QueryTyped(rrtype, result) ==
    IF result.err # NoErr THEN [records |-> <<>>, err |-> result.err]
    ELSE IF rrtype = TypeANY THEN [records |-> result.msg.answer, err |-> NoErr]
    ELSE [records |-> extractRecordsOfType(rrtype, result.msg.answer), err |-> NoErr]

\* what Resolver.Query may return for the question: one of its errors, or
\* a reply with up to MaxLen records in its Answer section
QueryResults(question) ==
    {Result(NoMsg, ErrNoAnswer), Result(NoMsg, ErrRemoteAD)}
    \cup {Result(Msg(question, answer, TRUE), NoErr) : answer \in SeqsUpTo(SigUniverse, MaxLen)}

InitTyped ==
    /\ \E rrtype \in {TypeA, TypeDNSKEY, TypeDS, TypeANY} :
          call_in \in [rrtype : {rrtype},
                       result : QueryResults(Question(TestExampleCom, rrtype))]
    /\ call_out = <<>>
    /\ call_pc = "call"
    /\ StubOff
    /\ SigOff
    /\ WalkOff

TypedApply ==
    /\ call_pc = "call"
    /\ call_out' = QueryTyped(call_in.rrtype, call_in.result)
    /\ call_pc' = "returned"
    /\ UNCHANGED <<call_in, sigVars, cfgVars, stubVars, authVars, walkVars, raceVars>>

NextTyped == TypedApply

SpecTyped == InitTyped /\ [][NextTyped]_vars

-----------------------------------------------------------------------------
(* The iterative resolver asked for a name as a caller may write it *)

\* t.e.c. as it is stored, and in mixed case without the trailing dot
CallerNames == {TestExampleCom, <<"T", ".", "e", ".", "C">>}

InitNames ==
    /\ WalkAtRest
    /\ walk_EnableTrace = FALSE
    /\ walk_names = CallerNames
    /\ walk_limit = MaxQueries
    /\ StubOff

SpecNames == InitNames /\ [][NextWalk]_vars

-----------------------------------------------------------------------------
(* Tracing: the stub client with its authenticator, and the iterative      *)
(* resolver, with EnableTrace set or not                                   *)

\* the trace that an earlier Query with tracing left in Resolver.Trace
OldTrace ==
    [created |-> TRUE, Records |-> <<TraceRecord("lookup", 0, Other, TypeA)>>]

\* a Resolver over the one reliable nameserver that has made Queries before,
\* or a RecursiveNameserver from NewRecursiveNameserver
InitTrace ==
    \/ /\ nameservers = <<1>>
       /\ LocallyAuthenticateData \in BOOLEAN
       /\ RemotelyAuthenticateData = FALSE
       /\ RandomNameserver = TRUE
       /\ maxAuthenticationDepth \in 0..MaxAuthenticationDepth
       /\ world \in Worlds(1)
       /\ env = "reliable"
       /\ top \in TopQuestions
       /\ RootDNSSECRecords = RootAnchors
       /\ EnableTrace \in BOOLEAN
       /\ Trace \in {NilTrace, OldTrace}
       /\ QueryAtRest
    \/ /\ WalkAtRest
       /\ walk_EnableTrace \in BOOLEAN
       /\ walk_names = WalkNames
       /\ walk_limit = MaxQueries
       /\ StubOff

NextTrace == Next \/ NextWalk

SpecTrace == InitTrace /\ [][NextTrace]_vars

-----------------------------------------------------------------------------
(* Two calls of Resolver.query that run concurrently on one Resolver: the   *)
(* shuffle of getNameservers writes the elements of d.nameservers while the *)
(* loop of the other call reads them                                        *)

\* the concurrent calls
Calls == {"a", "b"}

\* one call: where it stands, the indices i and j of the swap in progress and
\* the two elements read for it, the position k of the loop over the
\* nameservers, the nameservers it queried in order, and what it returned
Call(cpc, i, j, x, y, k, tried, cret) ==
    [pc |-> cpc, i |-> i, j |-> j, x |-> x, y |-> y, k |-> k, tried |-> tried, ret |-> cret]
NotCalled == Call("idle", 0, 0, 0, 0, 0, <<>>, "pending")

\* Resolver.query is called: getNameservers starts rand.Shuffle or returns the
\* list as it is; without nameservers the call fails
queryCall(c) ==
    /\ conc[c].pc = "idle"
    /\ conc' = [conc EXCEPT ![c] =
                  IF shuffled(nameservers)
                  THEN [@ EXCEPT !.pc = "shuffle", !.i = Len(nameservers)]
                  ELSE IF Len(nameservers) < 1
                  THEN [@ EXCEPT !.pc = "done", !.ret = "no nameservers set"]
                  ELSE [@ EXCEPT !.pc = "range", !.k = 1]]
    /\ UNCHANGED <<nameservers, Query_msg, pc, ret, q, q_res, authVars, cfgVars, sigVars, callVars,
                   walkVars, Trace>>

\* rand.Shuffle, the head of its loop: for i from the last index down to the
\* second, a random j up to i and swap(i, j); after it the loop over the
\* nameservers starts
shuffleLoop(c) ==
    /\ conc[c].pc = "shuffle"
    /\ \/ /\ conc[c].i >= 2
          /\ \E j \in 1..conc[c].i :
                conc' = [conc EXCEPT ![c] = [@ EXCEPT !.pc = "readJ", !.j = j]]
       \/ /\ conc[c].i < 2
          /\ conc' = [conc EXCEPT ![c] = [@ EXCEPT !.pc = "range", !.k = 1]]
    /\ UNCHANGED <<nameservers, Query_msg, pc, ret, q, q_res, authVars, cfgVars, sigVars, callVars,
                   walkVars, Trace>>

\* the swap, its right-hand side: d.nameservers[j], then d.nameservers[i]
swapRead(c) ==
    /\ conc[c].pc \in {"readJ", "readI"}
    /\ conc' = [conc EXCEPT ![c] =
                  IF @.pc = "readJ"
                  THEN [@ EXCEPT !.pc = "readI", !.x = nameservers[conc[c].j]]
                  ELSE [@ EXCEPT !.pc = "writeI", !.y = nameservers[conc[c].i]]]
    /\ UNCHANGED <<nameservers, Query_msg, pc, ret, q, q_res, authVars, cfgVars, sigVars, callVars,
                   walkVars, Trace>>

\* the swap, its assignments: d.nameservers[i], then d.nameservers[j]
swapWrite(c) ==
    /\ conc[c].pc \in {"writeI", "writeJ"}
    /\ IF conc[c].pc = "writeI"
       THEN /\ nameservers' = [nameservers EXCEPT ![conc[c].i] = conc[c].x]
            /\ conc' = [conc EXCEPT ![c] = [@ EXCEPT !.pc = "writeJ"]]
       ELSE /\ nameservers' = [nameservers EXCEPT ![conc[c].j] = conc[c].y]
            /\ conc' = [conc EXCEPT ![c] = [@ EXCEPT !.pc = "shuffle", !.i = @ - 1]]
    /\ UNCHANGED <<Query_msg, pc, ret, q, q_res, authVars, cfgVars, sigVars, callVars,
                   walkVars, Trace>>

\* one turn of the loop over the nameservers: the element at k is read and
\* queried; an error lets the loop go on, a reply ends the call, and past the
\* last element the call fails
rangeNameservers(c) ==
    /\ conc[c].pc = "range"
    /\ IF conc[c].k > Len(nameservers)
       THEN conc' = [conc EXCEPT ![c] = [@ EXCEPT !.pc = "done", !.ret = "no answer found"]]
       ELSE \E nameserver \in {nameservers[conc[c].k]}, failed \in BOOLEAN :
               conc' = [conc EXCEPT ![c] =
                          IF failed
                          THEN [@ EXCEPT !.tried = Append(@, nameserver), !.k = @ + 1]
                          ELSE [@ EXCEPT !.tried = Append(@, nameserver), !.pc = "done",
                                         !.ret = "reply"]]
    /\ UNCHANGED <<nameservers, Query_msg, pc, ret, q, q_res, authVars, cfgVars, sigVars, callVars,
                   walkVars, Trace>>

\* NewResolver with up to MaxNameservers nameservers, RandomNameserver set or
\* not, and no call made yet
InitRace ==
    /\ \E n \in 0..MaxNameservers : nameservers = [i \in 1..n |-> i]
    /\ RandomNameserver \in BOOLEAN
    /\ conc = [c \in Calls |-> NotCalled]
    /\ RootDNSSECRecords = <<>>
    /\ LocallyAuthenticateData = FALSE
    /\ RemotelyAuthenticateData = FALSE
    /\ maxAuthenticationDepth = 0
    /\ Trace = NilTrace
    /\ EnableTrace = FALSE
    /\ world = {}
    /\ env = "off"
    /\ top = Question(<<>>, "nil")
    /\ pc = "off"
    /\ Query_msg = NoMsg
    /\ ret = Pending
    /\ q = NoLookup
    /\ q_res = Pending
    /\ au = NoAuth
    /\ h_auth = <<>>
    /\ h_err = Err("pending")
    /\ h_ksk = {}
    /\ h_linked = {}
    /\ h_keyed = {}
    /\ SigOff
    /\ CallOff
    /\ WalkOff

NextRace ==
    \E c \in Calls :
        \/ queryCall(c)
        \/ shuffleLoop(c)
        \/ swapRead(c)
        \/ swapWrite(c)
        \/ rangeNameservers(c)

SpecRace == InitRace /\ [][NextRace]_vars

-----------------------------------------------------------------------------
(* Claim C1 *)

\* C1 as claimed: whenever Authenticate returns success, every SignatureSet
\* built from the answer was verified by a ZSK whose DNSKEY RRset was verified
\* by a KSK, and every such KSK (every verified KSK set, at every depth) is
\* linked by a matching DS to its parent, up to a root KSK that matches a
\* configured root anchor.
C1_TrustAnchorGrounding ==
    pc = "done" /\ h_err = NoErr =>
        /\ \A k \in h_ksk : k \in h_linked
        /\ \E k \in h_linked : k.key.name = Root /\ firstMatch(RootAnchors, k.key) # 0

-----------------------------------------------------------------------------
(* Claim C2 *)

\* C2: when locally-authenticate is set, Query returns a reply only if the
\* authenticator succeeded on that reply; if the lookup or the authentication
\* fails, Query returns the error and no message.
C2_AuthenticatedOrNothing ==
    pc = "done" /\ LocallyAuthenticateData =>
        /\ ret.msg # NoMsg =>
              /\ ret.err = NoErr
              /\ h_err = NoErr
              /\ h_auth # <<>> /\ h_auth[1].msg = ret.msg /\ h_auth[1].depth = 0
        /\ ret.err # NoErr => ret.msg = NoMsg
        /\ (q_res.err # NoErr /\ h_auth = <<>>) => ret = Result(NoMsg, q_res.err)
        /\ (h_err # NoErr /\ h_auth # <<>>) => ret = Result(NoMsg, h_err)

\* the authenticator failed on a reply of the lookup, and Query returned the
\* error without the message
C2_Witness ==
    /\ pc = "done" /\ LocallyAuthenticateData
    /\ h_auth # <<>> /\ h_auth[1].msg # NoMsg
    /\ h_err = ErrVerify(ErrBadSig)
    /\ ret = Result(NoMsg, h_err)

-----------------------------------------------------------------------------
(* Claim C3 *)

\* C3 as claimed: during one top-level Query of the iterative resolver the
\* number of outbound transport calls (NameServer.Query invocations made by
\* queryNameserver, successful or failed) never exceeds max-query-count.
C3_QueryBudget == h_calls <= maxQueryCount

-----------------------------------------------------------------------------
(* Claim C4 *)

\* the queryNameserver calls in progress that have passed the budget check
C4_Asked ==
    {i \in 1..Len(stack) : stack[i].fn = "queryNameserver" /\ stack[i].stage # "entry"}

\* every cycle of the recursion passes the budget check: a query call is made
\* by a queryNameserver call that has passed it, or is the root's query for a
\* nameserver hostname, whose own calls all go through queryNameserver
C4_Budgeted ==
    /\ Cardinality(C4_Asked) <= h_calls
    /\ h_calls = queryCounter
    /\ queryCounter <= maxQueryCount + 1
    /\ \A i \in 2..Len(stack) :
          stack[i].fn = "query" =>
              \/ i - 1 \in C4_Asked
              \/ /\ stack[i - 1].fn = "query" /\ stack[i - 1].stage = "resolve"
                 /\ stack[i].z = <<>> /\ stack[i].stage # "resolve"

\* a hard error in flight is handed on unchanged by every call, up to Query
C4_HardErrorKept ==
    returned.err.hard =>
        \/ returned' = returned /\ Len(stack') = Len(stack) - 1
        \/ stack = <<>> /\ walk_ret' = returned

\* C4: every top-level Query of the iterative resolver eventually returns,
\* whatever the nameservers reply; every cycle of the recursion
\* query -> queryNameserver -> child.query / root.query passes the budget
\* check, and a hard error, the budget error among them, reaches the caller.
C4_EventuallyReturns ==
    /\ (walk_pc = "run") ~> (walk_pc = "returned")
    /\ []C4_Budgeted
    /\ [][C4_HardErrorKept]_vars

\* a referral was followed, the budget ran out in a nested call, and Query
\* returned the budget error
C4_Witness ==
    /\ walk_pc = "returned"
    /\ maxQueryCount >= 1
    /\ h_calls = maxQueryCount + 1
    /\ Children(rootZoneResolver, <<>>) # {}
    /\ walk_ret = Returned(NoReply, ErrMaxQueryCount(maxQueryCount + 1))

-----------------------------------------------------------------------------
(* Claim C5 *)

\* C5: one top-level Authenticate invokes itself at most
\* max-authentication-depth times, the invocation at depth d being the d-th
\* recursive one; the invocation at depth = max fails at once with the depth
\* error, and the authentication returns.
C5_Invocations ==
    /\ Len(h_auth) <= maxAuthenticationDepth + 1
    /\ \A i \in 1..Len(h_auth) : h_auth[i].depth = i - 1
    /\ au.depth <= maxAuthenticationDepth
    /\ (Len(h_auth) = maxAuthenticationDepth + 1 /\ pc # "Authenticate") =>
          pc = "done" /\ h_err = ErrMaxAuthDepth(maxAuthenticationDepth)

C5_AuthenticationBounded == []C5_Invocations /\ <>(pc = "done")

\* the DS RRset signed by its own zone again drove the recursion to the cap
C5_Witness ==
    /\ pc = "done"
    /\ "ds_self_e" \in world
    /\ maxAuthenticationDepth >= 3
    /\ Len(h_auth) = maxAuthenticationDepth + 1
    /\ h_err = ErrMaxAuthDepth(maxAuthenticationDepth)

-----------------------------------------------------------------------------
(* Claim C6 *)

\* the lookup that just returned to its caller
LookupReturned == pc \in {"Query", "keys", "ds"}

C6_AllErrors == \A j \in 1..Len(q.calls) : q.calls[j].outcome = "err"

\* C6: one lookup calls the nameservers one at a time in the order of the
\* (shuffled) list, each at most once, stops at the first that returns without
\* error, and returns "no answer found on any configured nameserver" exactly
\* when every nameserver returned an error; with an empty list it fails with
\* "no nameservers set" without any call.
C6_Failover ==
    /\ pc \in {"nameserver", "Query", "keys", "ds"} =>
          /\ Len(q.calls) <= Len(nameservers)
          /\ \A j \in 1..Len(q.calls) : q.calls[j].ns = nameservers[j]
          /\ \A j, k \in 1..Len(q.calls) : j # k => q.calls[j].ns # q.calls[k].ns
          /\ \A j \in 1..(Len(q.calls) - 1) : q.calls[j].outcome = "err"
    /\ pc = "nameserver" => C6_AllErrors /\ q.i = Len(q.calls) + 1
    /\ LookupReturned =>
          /\ Len(nameservers) = 0 => q.calls = <<>> /\ q_res = Result(NoMsg, ErrNoNameservers)
          /\ Len(nameservers) > 0 =>
                /\ q.calls # <<>>
                /\ q_res.err = ErrNoAnswer <=>
                      (Len(q.calls) = Len(nameservers) /\ C6_AllErrors)

\* the first nameserver failed, the second replied, and the lookup returned
C6_Witness ==
    /\ LookupReturned
    /\ Len(nameservers) >= 2
    /\ Len(q.calls) = 2
    /\ q.calls[1].outcome = "err" /\ q.calls[2].outcome # "err"
    /\ q_res.err = NoErr

-----------------------------------------------------------------------------
(* Claim C7 *)

C7_LastOutcome == q.calls[Len(q.calls)].outcome

\* C7: with trust-remote-AD-bit set, a first reply without the AD flag fails
\* the lookup at once with "resolver dnssec authentication failed" and no
\* message, and the remaining nameservers are not tried; with the flag unset
\* the lookup returns the reply whatever its AD flag.
C7_RemoteAD ==
    (LookupReturned /\ q.calls # <<>> /\ C7_LastOutcome # "err") =>
        LET reply == Msg(Question(q.name, q.rrtype),
                         Answer(world, Question(q.name, q.rrtype)), C7_LastOutcome = "ad")
        IN  /\ (RemotelyAuthenticateData /\ C7_LastOutcome = "noad") =>
                  q_res = Result(NoMsg, ErrRemoteAD)
            /\ (RemotelyAuthenticateData /\ C7_LastOutcome = "ad") =>
                  q_res = Result(reply, NoErr)
            /\ ~RemotelyAuthenticateData => q_res = Result(reply, NoErr)

\* the first of two nameservers replied without the AD flag: the lookup
\* failed and the second was not called
C7_Witness ==
    /\ LookupReturned
    /\ RemotelyAuthenticateData
    /\ Len(nameservers) = 2
    /\ q.calls = <<[ns |-> nameservers[1], outcome |-> "noad"]>>
    /\ q_res = Result(NoMsg, ErrRemoteAD)

-----------------------------------------------------------------------------
(* Claim C8 *)

\* the zones from the signer of the answer up to and including the root: a
\* DS RRset is signed by the parent of its owner, a DNSKEY RRset by its owner
C8_ChainLength ==
    IF top.rrtype = TypeA THEN 3
    ELSE IF top.rrtype = TypeDNSKEY THEN countLabels(top.name) + 1
    ELSE countLabels(top.name)

\* C8: for a fully valid chain of k zones a locally authenticated query
\* succeeds when max-authentication-depth >= k and fails with "maximum
\* authentication depth of N reached", N the configured maximum, when it is
\* smaller.
C8_DepthOfValidChain ==
    (pc = "done" /\ world = {} /\ env = "reliable" /\ LocallyAuthenticateData) =>
        IF maxAuthenticationDepth >= C8_ChainLength
        THEN ret = Result(Msg(top, Answer({}, top), FALSE), NoErr)
        ELSE ret = Result(NoMsg, ErrMaxAuthDepth(maxAuthenticationDepth))

\* t.e.c. A over the chain e.c., c., "." authenticated with the maximum at 3
C8_Witness ==
    /\ pc = "done" /\ world = {} /\ env = "reliable"
    /\ top = Question(TestExampleCom, TypeA)
    /\ maxAuthenticationDepth = 3
    /\ Len(h_auth) = 3
    /\ ret.err = NoErr

-----------------------------------------------------------------------------
(* Claim C9 *)

\* the RRSIGs of the chain of t.e.c. A, by the tamper's suffix, in the order
\* in which the authenticator verifies them
C9_Chain == <<"A", "KEY_e", "DS_e", "KEY_c", "DS_c", "KEY_r">>

\* the depth of the Authenticate invocation that verifies RRSIG i of C9_Chain
\* for the question asked; negative when the question's chain starts above it
C9_Depth(i) == ((i - 1) \div 2) - (3 - C8_ChainLength)

\* RRSIG i is verified on the way up from the answer, for a question whose
\* answer a zone-signing key signs (A and DS)
C9_InChain(i) ==
    IF top.rrtype = TypeA THEN TRUE
    ELSE IF top.rrtype = TypeDS THEN i >= 2 * (3 - C8_ChainLength) + 1
    ELSE FALSE

\* one RRSIG of the otherwise valid chain is outside its window, its
\* signature bytes valid or not
C9_OnlyOutside(i) ==
    \/ world = {"exp_" \o C9_Chain[i]}
    \/ world = {"exp_" \o C9_Chain[i], "bad_" \o C9_Chain[i]}

-----------------------------------------------------------------------------
(* Claim C10 *)

\* rr matches RRSIG sig on type covered, signer-name suffix and label count
C10_Matches(sig, rr) ==
    /\ sig.rdata.typeCovered = rr.rrtype
    /\ Len(sig.rdata.signerName) <= Len(rr.name)
    /\ \A k \in 1..Len(sig.rdata.signerName) :
          rr.name[Len(rr.name) - Len(sig.rdata.signerName) + k] = sig.rdata.signerName[k]
    /\ sig.rdata.labels = countLabels(rr.name)

C10_NonRRSIG == {j \in 1..Len(ss_in) : ss_in[j].rrtype # TypeRRSIG}
C10_RRSIG == {j \in 1..Len(ss_in) : ss_in[j].rrtype = TypeRRSIG}

\* every non-RRSIG record of the input is in a returned set, and every record
\* of a set matches the set's RRSIG
C10_Coverage ==
    /\ \A j \in C10_NonRRSIG :
          \E i \in 1..Len(ss_out.sets) : ss_in[j] \in Range(ss_out.sets[i].records)
    /\ \A i \in 1..Len(ss_out.sets) :
          \A rr \in Range(ss_out.sets[i].records) :
              C10_Matches(ss_out.sets[i].signature, rr)

C10_SomeUnmatched ==
    \E j \in C10_NonRRSIG : \A i \in C10_RRSIG : ~C10_Matches(ss_in[i], ss_in[j])

\* C10 as claimed: when newSignatureSets succeeds every non-RRSIG record of the
\* input is in at least one returned set and every record of a set matches that
\* set's RRSIG on type covered, signer-name suffix and label count; when some
\* non-RRSIG record matches no RRSIG of the input, newSignatureSets fails with
\* "was unable to be assigned to any RRSIG" and returns no sets.
C10_AsClaimed ==
    ss_pc = "returned" =>
        /\ ss_out.err = NoErr => C10_Coverage
        /\ C10_SomeUnmatched => ss_out.err = ErrUnassigned /\ ss_out.sets = <<>>

\* C10 amended: as claimed when the input holds at least one RRSIG; an input
\* without any RRSIG fails with "no RRSIG records found" instead, also when it
\* holds records that match no RRSIG.
C10_Amended ==
    ss_pc = "returned" =>
        /\ ss_out.err = NoErr => C10_Coverage
        /\ C10_SomeUnmatched /\ C10_RRSIG # {} =>
              ss_out.err = ErrUnassigned /\ ss_out.sets = <<>>
        /\ C10_RRSIG = {} => ss_out.err = ErrNoRRSIG /\ ss_out.sets = <<>>

\* a success in which one record was adopted by the sets of two RRSIGs
C10_Witness ==
    /\ ss_pc = "returned"
    /\ ss_out.err = NoErr
    /\ Len(ss_out.sets) = 2
    /\ \A i \in 1..2 : ss_out.sets[i].records = <<RR_A(TestExampleCom, "1.1.1.1")>>

-----------------------------------------------------------------------------
(* Claim C11 *)

\* the DNSKEY records of the response to the DNSKEY question for zone
C11_ResponseKeys(zone) ==
    LET answer == Answer(world, Question(zone, TypeDNSKEY))
    IN  {answer[k] : k \in {j \in 1..Len(answer) : answer[j].rrtype = TypeDNSKEY}}

\* the keys of that response that the step may use for signature sig
C11_Matching(e) ==
    {key \in C11_ResponseKeys(e.signature.rdata.signerName) :
        /\ key.rdata.flags = (IF e.step = "zsk" THEN 256 ELSE 257)
        /\ key.rdata.tag = e.signature.rdata.keyTag}

\* C11: a signature set is verified only with a key of the DNSKEY response of
\* its signer zone whose tag is the tag of the RRSIG and whose flags are 256
\* for a set of the answer and 257 for a set of the DNSKEY response; a set for
\* which the response has no such key is not verified and Authenticate has
\* returned the error 'does not have a matching key'
C11_KeyMatching ==
    \A e \in h_keyed :
        /\ e.asked = e.signature.rdata.signerName
        /\ IF e.key = NoKey
           THEN C11_Matching(e) = {} /\ pc = "done" /\ h_err = ErrNoMatchingKey
           ELSE e.key \in C11_Matching(e)

\* the DNSKEY RRset signed with the tag of a key with flags 256: the KSK step
\* finds no key, after the ZSK step verified the answer with that key
C11_Witness ==
    /\ pc = "done" /\ h_err = ErrNoMatchingKey
    /\ \E e \in h_keyed, f \in h_keyed :
          /\ e.step = "ksk" /\ e.key = NoKey
          /\ f.step = "zsk" /\ f.key # NoKey /\ f.depth = e.depth
          /\ f.key.rdata.tag = e.signature.rdata.keyTag

-----------------------------------------------------------------------------
(* Claim C12 *)

\* C12: a reply that RecursiveNameserver.Query returns without error has its
\* Authoritative flag set
C12_Authoritative ==
    (walk_pc = "returned" /\ walk_ret.err = WalkNoErr) => walk_ret.msg.authoritative

-----------------------------------------------------------------------------
(* Claim C13 *)

\* the hard error of a reply that is authoritative and has no answer
C13_Stopped == Returned(NoReply, ErrRecordDoesNotExist)

\* C13: once a nameserver replied without error, authoritative and with an
\* empty Answer section, the walk is handing the hard error 'record does not
\* exist' up to Query or Query has returned it; from the step that receives
\* the reply on the zone tree does not change, and after it no nameserver is
\* asked
C13_RecordDoesNotExist ==
    /\ [](h_nodata => \/ (walk_pc = "run" /\ returned = C13_Stopped)
                       \/ (walk_pc = "returned" /\ walk_ret = C13_Stopped))
    /\ [][h_nodata' => /\ rootZoneResolver' = rootZoneResolver
                       /\ (h_nodata => h_calls' = h_calls)]_vars

\* a referral was followed and a nameserver of the child zone replied
\* authoritative without answer, with a referral in its Authority section;
\* Query returned the hard error
C13_Witness ==
    /\ h_nodata
    /\ walk_pc = "returned" /\ walk_ret = C13_Stopped
    /\ h_calls >= 2
    /\ Children(rootZoneResolver, <<>>) # {}

-----------------------------------------------------------------------------
(* Claim C14 *)

\* the nameservers as configured
C14_Configured == [i \in 1..Len(nameservers) |-> i]

\* C14: with RandomNameserver disabled no call modifies the nameserver list,
\* and the nameservers a concurrent call queried are the first of the list in
\* configured order, each once
C14_OrderKept ==
    ~RandomNameserver =>
        /\ nameservers = C14_Configured
        /\ \A c \in DOMAIN conc :
              /\ Len(conc[c].tried) <= Len(nameservers)
              /\ conc[c].tried = SubSeq(C14_Configured, 1, Len(conc[c].tried))

\* with RandomNameserver enabled and two nameservers or more, a call whose
\* loop ran to the end while the other call shuffled has queried one
\* nameserver twice and another one never
C14_Witness ==
    /\ RandomNameserver
    /\ Len(nameservers) >= 2
    /\ \E c \in DOMAIN conc :
          /\ conc[c].pc = "done" /\ conc[c].ret = "no answer found"
          /\ \E m, n \in 1..Len(conc[c].tried) : m # n /\ conc[c].tried[m] = conc[c].tried[n]
          /\ \E ns \in 1..Len(nameservers) : ns \notin Range(conc[c].tried)

-----------------------------------------------------------------------------
(* Claim C15 *)

\* C15: at the start of every top-level Query the zone tree is the root node
\* alone with the root servers: no child zone, hostname or endpoint learned
\* during an earlier Query is in it
C15_TreePerResolution ==
    [][(walk_pc # "run" /\ walk_pc' = "run") => rootZoneResolver' = newRootZoneResolver]_vars

-----------------------------------------------------------------------------
(* Claim C16 *)

\* the records of new are those of old, in order, and then more
C16_Extends(old, new) ==
    /\ new.created
    /\ Len(old.Records) <= Len(new.Records)
    /\ SubSeq(new.Records, 1, Len(old.Records)) = old.Records

\* the lookup that the running Resolver.query traces when it gets its reply
C16_Lookup == TraceRecord("lookup", 0, q.name, q.rrtype)

\* C16: with tracing enabled a top-level Query, of the stub client and of
\* the iterative resolver, starts with a new empty trace; until it returns
\* the trace only grows at its end; and a DNSKEY or DS lookup made by the
\* authenticator that gets its reply appends its record to that trace
C16_TracePerQuery ==
    /\ [][EnableTrace =>
            /\ (pc = "idle" /\ pc' # "idle") => Trace' = [created |-> TRUE, Records |-> <<>>]
            /\ (pc \notin {"idle", "off"}) => C16_Extends(Trace, Trace')
            /\ (pc = "nameserver" /\ pc' \in {"keys", "ds"} /\ q_res'.err = NoErr)
                  => Trace'.Records = Append(Trace.Records, C16_Lookup)]_vars
    /\ [][walk_EnableTrace =>
            /\ (walk_pc # "run" /\ walk_pc' = "run")
                  => walk_Trace' = [created |-> TRUE, Records |-> <<>>]
            /\ (walk_pc = "run") => C16_Extends(walk_Trace, walk_Trace')]_vars

\* a Query of t.e.c. A with tracing that authenticated its answer returned:
\* the trace starts with the lookup of the question, holds the DNSKEY and DS
\* lookups of the authenticator, and nothing of the earlier Query
C16_Witness ==
    /\ EnableTrace
    /\ pc = "done" /\ ret.err = NoErr /\ LocallyAuthenticateData
    /\ Len(Trace.Records) >= 3
    /\ Trace.Records[1] = TraceRecord("lookup", 0, TestExampleCom, TypeA)
    /\ \E k \in 2..Len(Trace.Records) :
          Trace.Records[k] = TraceRecord("lookup", 0, ExampleCom, TypeDNSKEY)
    /\ \E k \in 2..Len(Trace.Records) :
          Trace.Records[k] = TraceRecord("lookup", 0, ExampleCom, TypeDS)
    /\ \A k \in 1..Len(Trace.Records) : Trace.Records[k] \notin Range(OldTrace.Records)

-----------------------------------------------------------------------------
(* Claim C17 *)

\* a name in lower case that ends with exactly one dot
C17_Canonical(name) ==
    /\ Lower(name) = name
    /\ Len(name) >= 1 /\ name[Len(name)] = "."
    /\ Len(name) >= 2 => name[Len(name) - 1] # "."

\* C17: the name that zoneResolver.query and queryNameserver look up and
\* compare is in lower case with exactly one trailing dot, and so is every
\* child-zone key and nameserver hostname of the zone tree
C17_NameForm ==
    /\ \A k \in 1..Len(stack) : C17_Canonical(stack[k].name)
    /\ \A z \in DOMAIN rootZoneResolver :
          /\ \A k \in 1..Len(z) : C17_Canonical(z[k])
          /\ \A hostname \in DOMAIN rootZoneResolver[z].nsA : C17_Canonical(hostname)

-----------------------------------------------------------------------------
(* Claim C18 *)

\* C18: every endpoint of the zone tree below the root node, learned from a
\* glue record or by resolving the hostname from the root, was created by
\* the factory of the RecursiveNameserver
C18_FactoryMade ==
    \A z \in DOMAIN rootZoneResolver \ {<<>>} :
        \A hostname \in DOMAIN rootZoneResolver[z].nsA :
            rootZoneResolver[z].nsA[hostname] # NilNS
                => rootZoneResolver[z].nsA[hostname].by = "factory"

-----------------------------------------------------------------------------
(* Claim C19 *)

\* C19: the message that LookupNameserver.Query hands to the client has RD
\* set, EDNS0 with UDP size 4096 and DO set, and a question name that ends
\* with a dot, on every transport and whatever the exchange gives back; Query
\* returns an error exactly when the exchange failed or the response code is
\* not NOERROR, and in the second case it returns the reply with the error
C19_OutboundQuery ==
    call_pc = "returned" =>
        /\ call_out.sent.RecursionDesired
        /\ call_out.sent.edns0 = [UDPSize |-> 4096, Do |-> TRUE]
        /\ call_out.sent.net = call_in.protocol
        /\ call_out.sent.question.rrtype = call_in.rrtype
        /\ LET name == call_out.sent.question.name
           IN  /\ Len(name) >= 1 /\ name[Len(name)] = "."
               /\ TrimRightDots(name) = TrimRightDots(call_in.name)
        /\ (call_out.err # NoErr) <=>
              (call_in.exchange.err # NoErr \/ call_in.exchange.response.rcode # 0)
        /\ (call_in.exchange.err = NoErr /\ call_in.exchange.response.rcode # 0) =>
              /\ call_out.response = call_in.exchange.response
              /\ call_out.err = ErrRcode(call_in.exchange.response.rcode)

\* Query over TLS for a name without trailing dot, answered NXDOMAIN: the
\* reply came back with the error
C19_Witness ==
    /\ call_pc = "returned"
    /\ call_in.protocol = "tcp-tls"
    /\ call_in.name = <<"t", ".", "e", ".", "c">>
    /\ call_out.sent.question.name = TestExampleCom
    /\ call_out.response = Response(3)
    /\ call_out.err = ErrRcode(3)

-----------------------------------------------------------------------------
(* Claim C20 *)

\* the positions of the Answer section that hold a record of the type
C20_Positions(answer, rrtype) == {i \in 1..Len(answer) : answer[i].rrtype = rrtype}

\* records are the records of answer at the positions P, in their order
C20_Selected(answer, P, records) ==
    /\ Len(records) = Cardinality(P)
    /\ \A i \in P : records[Cardinality({j \in P : j <= i})] = answer[i]

\* C20: a typed helper returns the records of the requested type of the
\* Answer section, in their order and nothing else; QueryANY returns the
\* Answer section; when Query failed the helper returns no records and the
\* error of Query
C20_TypedHelpers ==
    call_pc = "returned" =>
        IF call_in.result.err # NoErr
        THEN call_out = [records |-> <<>>, err |-> call_in.result.err]
        ELSE /\ call_out.err = NoErr
             /\ IF call_in.rrtype = TypeANY
                THEN call_out.records = call_in.result.msg.answer
                ELSE C20_Selected(call_in.result.msg.answer,
                                  C20_Positions(call_in.result.msg.answer, call_in.rrtype),
                                  call_out.records)

\* QueryA on an Answer section with an RRSIG between two A records
C20_Witness ==
    /\ call_pc = "returned"
    /\ call_in.rrtype = TypeA /\ call_in.result.err = NoErr
    /\ Len(call_in.result.msg.answer) = 3
    /\ call_in.result.msg.answer[2].rrtype = TypeRRSIG
    /\ call_out.records = <<call_in.result.msg.answer[1], call_in.result.msg.answer[3]>>
    /\ call_out.records[1] # call_out.records[2]

-----------------------------------------------------------------------------
(* Claim C21 *)

\* a call handed a soft error back to the call at the top of the stack
C21_SoftErrorBack ==
    /\ stack # <<>> /\ returned # NoReturn
    /\ returned.err # WalkNoErr /\ ~returned.err.hard

\* the loop that the call at the top of the stack was in when it made a call
C21_Loop ==
    IF Top.fn = "queryNameserver" THEN "children"
    ELSE IF Top.stage = "knownCall" THEN "known" ELSE "unknown"

\* a soft error does not end the call it came back to: the call stays in
\* progress and goes on with the loop it was in
C21_SoftErrorPassed ==
    C21_SoftErrorBack =>
        /\ stack' = Append(Callers, [Top EXCEPT !.stage = C21_Loop])
        /\ returned' = NoReturn
        /\ walk_pc' = "run"

\* a call fails with 'unable to find answer' only when the loop over the
\* nameservers without endpoint, or over the child zones, has run out
C21_LoopRunOut ==
    (stack # <<>> /\ returned = NoReturn /\ returned'.err = ErrUnableToFind) =>
        /\ Top.stage \in {"unknown", "children"}
        /\ Top.snap \subseteq Top.seen

\* a hard error in flight goes up one call at a time, unchanged, until Query
\* returns it, and no transport call is made on the way
C21_HardErrorReturned ==
    returned.err.hard =>
        /\ h_calls' = h_calls /\ carried' = carried
        /\ rootZoneResolver' = rootZoneResolver
        /\ \/ stack # <<>> /\ stack' = Callers /\ returned' = returned
           \/ stack = <<>> /\ walk_pc' = "returned" /\ walk_ret' = returned

-----------------------------------------------------------------------------
(* Claim C22 *)

\* Authenticate is entered at a depth that is not below the maximum
C22_Entered == pc = "Authenticate" /\ au.depth >= maxAuthenticationDepth

-----------------------------------------------------------------------------
(* Claim C23 *)

\* C23: processing a referral leaves the entries that a nameserver map
\* already has as they are: a hostname whose endpoint is known in a zone node
\* does not become a hostname with unknown endpoint
C23_KnownEndpointKept ==
    [][\A z \in DOMAIN rootZoneResolver :
           \A hostname \in DOMAIN rootZoneResolver[z].nsA :
               rootZoneResolver[z].nsA[hostname] # NilNS
                   => rootZoneResolver'[z].nsA[hostname] # NilNS]_vars

-----------------------------------------------------------------------------
(* Claim C24 *)

\* C24: of several A records seen for one learned nameserver hostname the
\* first address is kept: the second glue record of a referral does not
\* become the endpoint, and an endpoint that is known is not replaced by the
\* address of a later A record
C24_FirstAddressKept ==
    /\ [](\A z \in DOMAIN rootZoneResolver :
              \A hostname \in DOMAIN rootZoneResolver[z].nsA :
                  rootZoneResolver[z].nsA[hostname].address # "3.3.3.3")
    /\ [][\A z \in DOMAIN rootZoneResolver :
              \A hostname \in DOMAIN rootZoneResolver[z].nsA :
                  (/\ rootZoneResolver[z].nsA[hostname] # NilNS
                   /\ rootZoneResolver'[z].nsA[hostname] # NilNS)
                      => rootZoneResolver'[z].nsA[hostname].address
                            = rootZoneResolver[z].nsA[hostname].address]_vars

-----------------------------------------------------------------------------
(* Claim C25 *)

\* the resolution of a nameserver hostname from the root returned an answer
C25_Resolved ==
    /\ walk_pc = "run" /\ stack # <<>> /\ returned # NoReturn
    /\ Top.fn = "query" /\ Top.stage = "resolve"
    /\ returned.err = WalkNoErr /\ Len(returned.msg.answer) > 0

\* the first A record of an Answer section that holds one
C25_FirstA(answer) ==
    answer[CHOOSE i \in 1..Len(answer) :
               /\ answer[i].rrtype = TypeA
               /\ \A j \in 1..(i - 1) : answer[j].rrtype # TypeA]

\* C25: when the resolution of a nameserver hostname from the root returns a
\* non-empty Answer section, the step completes normally and the endpoint of
\* the hostname in the node becomes the port-53 endpoint at the address of
\* the first A record of the Answer, wherever that record stands
C25_EndpointOfFirstA ==
    [][C25_Resolved =>
           /\ walk_pc' = "run"
           /\ rootZoneResolver'[Top.z].nsA[Top.nsHostname].address
                  = C25_FirstA(returned.msg.answer).rdata.a
           /\ rootZoneResolver'[Top.z].nsA[Top.nsHostname].port = "53"]_vars

-----------------------------------------------------------------------------
(* Claim C26 *)

\* the zone of a node: the name it is stored under, the root zone for the
\* root node
C26_Zone(z) == IF z = <<>> THEN Root ELSE z[Len(z)]

\* name is the zone or lies below it
C26_Subdomain(name, zone) ==
    \/ zone = Root
    \/ name = zone
    \/ HasSuffix(name, <<".">> \o zone)

\* C26: in every reachable state the root node is in the tree, every other
\* node is the child of a node of the tree, so that the parent references
\* lead to the root, and the name under which a child is stored is a
\* subdomain of the zone of the node that holds it
C26_ZoneTree ==
    /\ <<>> \in DOMAIN rootZoneResolver
    /\ \A z \in DOMAIN rootZoneResolver \ {<<>>} :
          /\ SubSeq(z, 1, Len(z) - 1) \in DOMAIN rootZoneResolver
          /\ C26_Subdomain(C26_Zone(z), C26_Zone(SubSeq(z, 1, Len(z) - 1)))

-----------------------------------------------------------------------------
(* Claim C27 *)

\* C27: whatever the question of the message that is authenticated, every
\* signature set that has a key attached either covers a type other than
\* DNSKEY and has a key with flags 256 (ZSK), or covers DNSKEY and has a key
\* with flags 257 (KSK)
C27_Sealed ==
    \A e \in h_keyed :
        e.key # NoKey =>
            \/ e.signature.rdata.typeCovered # TypeDNSKEY /\ e.key.rdata.flags = DNSKEY_ZSK
            \/ e.signature.rdata.typeCovered = TypeDNSKEY /\ e.key.rdata.flags = DNSKEY_KSK

-----------------------------------------------------------------------------
(* Claim C28 *)

\* rrset holds no RRSIG record
C28_Unsigned(rrset) == \A i \in 1..Len(rrset) : ~IsRRSIG(rrset[i])

\* newSignatureSets returned for an input without RRSIG record
C28_Partitioned == ss_pc = "returned" /\ C28_Unsigned(ss_in)

\* the reply to a locally authenticated Query has no RRSIG record in its
\* Answer section
C28_UnsignedReply ==
    /\ LocallyAuthenticateData /\ pc \notin {"off", "idle", "query", "nameserver", "Query"}
    /\ Query_msg # NoMsg /\ C28_Unsigned(Query_msg.answer)

\* C28: newSignatureSets fails with 'no RRSIG records found' for every input
\* without RRSIG record, the empty input and the inputs that the
\* unassigned-record check would reject among them; so a locally
\* authenticated Query whose reply has an empty or unsigned Answer section
\* fails, in the first Authenticate invocation, and the only lookup made is
\* the one of the question itself
C28_NoRRSIG ==
    /\ C28_Partitioned => ss_out = [err |-> ErrNoRRSIG, sets |-> <<>>]
    /\ C28_UnsignedReply =>
          /\ ret.err # NoErr
          /\ Len(h_auth) <= 1 /\ h_keyed = {}
          /\ q.name = top.name /\ q.rrtype = top.rrtype /\ Len(q.calls) = 1
          /\ pc \in {"Authenticate", "done"}
          /\ pc = "done" =>
                /\ ret.msg = NoMsg /\ ret.err = h_err
                /\ h_err = IF depthReached(0) THEN ErrMaxAuthDepth(maxAuthenticationDepth)
                           ELSE ErrNoRRSIG

\* a locally authenticated Query whose reply holds an A record without
\* signature failed with 'no RRSIG records found'
C28_Witness ==
    /\ C28_UnsignedReply /\ pc = "done"
    /\ Query_msg.answer # <<>>
    /\ ret = Result(NoMsg, ErrNoRRSIG)

-----------------------------------------------------------------------------
(* Claim C29 *)

\* Authenticate is at its loop over the verified KSK sets, and the first of
\* them is signed by the root zone
C29_AtRoot ==
    /\ pc = "chain" /\ Len(au.valid) > 0
    /\ au.valid[1].signature.rdata.signerName = Root

\* the anchor equals the DS of the key on key tag, algorithm and digest, the
\* case of the hex digits of the digest set aside
C29_Equal(anchor, key) ==
    /\ anchor.rdata.keyTag = key.rdata.tag
    /\ anchor.rdata.alg = key.rdata.alg
    /\ anchor.rdata.digest.of = key.rdata.kid

\* C29: when the signer of the verified KSK set is the root zone no DS lookup
\* is made, and Authenticate succeeds if and only if some configured root
\* anchor equals the DS derived from that KSK on key tag, algorithm and
\* digest compared case-insensitively; otherwise, and always with an empty
\* anchor list, it fails with 'unable to find a matching DS digest at the
\* root'
C29_RootStep ==
    [][C29_AtRoot =>
           /\ pc' = "done" /\ q' = q /\ q_res' = q_res
           /\ h_err' = IF \E i \in 1..Len(RootDNSSECRecords) :
                              C29_Equal(RootDNSSECRecords[i], au.valid[1].key)
                       THEN NoErr ELSE ErrDSRoot
           /\ (RootDNSSECRecords = <<>>) => ret' = Result(NoMsg, ErrDSRoot)]_vars

\* the chain of t.e.c. A was followed to the root, where the second of two
\* anchors, in upper-case hex, matched the root KSK
C29_Witness ==
    /\ pc = "done" /\ h_err = NoErr /\ ret.err = NoErr
    /\ top = Question(TestExampleCom, TypeA)
    /\ Len(RootDNSSECRecords) = 2
    /\ RootDNSSECRecords[2].rdata.digest.upper
    /\ Len(h_auth) = 3
    /\ q.rrtype = TypeDNSKEY /\ q.name = Root

-----------------------------------------------------------------------------
(* Claim C30 *)

\* zone a is an ancestor of zone z and not z itself
C30_StrictAncestor(a, z) ==
    /\ a # z
    /\ a = Root \/ HasSuffix(z, <<".">> \o a)

\* C30: the zone whose signatures the Authenticate invocation at depth d + 1
\* validates is a strict ancestor of the zone validated at depth d: a DS
\* response signed by the child zone itself, or by a zone that is not above
\* it, is not taken as the next step
C30_ParentByParent ==
    \A e1, e2 \in h_keyed :
        e2.depth = e1.depth + 1 =>
            C30_StrictAncestor(e2.signature.rdata.signerName, e1.signature.rdata.signerName)

-----------------------------------------------------------------------------
(* Claim C31 *)

\* a Query of the stub client with tracing is under way or has returned
C31_Tracing == EnableTrace /\ pc \notin {"idle", "off"}

\* record j of the trace is the lookup of a response that holds rr
C31_LookupOf(j, rr) ==
    /\ Trace.Records[j].kind = "lookup"
    /\ rr \in Range(Answer(world, Question(Trace.Records[j].name, Trace.Records[j].rrtype)))

\* the records j before k that are valid signature validations with this key
\* type, at the depth and for the zone of record k
C31_Before(k, keyType, zone) ==
    {j \in 1..(k - 1) :
        /\ Trace.Records[j].kind = "validation"
        /\ Trace.Records[j].KeyType = keyType
        /\ Trace.Records[j].Valid
        /\ Trace.Records[j].Depth = Trace.Records[k].Depth
        /\ Trace.Records[j].Zone = zone}

\* the order of the records of the trace
C31_Causal ==
    \A k \in 1..Len(Trace.Records) :
        LET r == Trace.Records[k]
        IN  /\ r.kind = "validation" =>
                /\ \E j \in 1..(k - 1) : C31_LookupOf(j, r.Signature)
                /\ \E j \in 1..(k - 1) : C31_LookupOf(j, r.Key)
                /\ \A i \in 1..Len(r.Records) : \E j \in 1..(k - 1) : C31_LookupOf(j, r.Records[i])
            /\ (r.kind = "validation" /\ r.KeyType = "ksk") =>
                \E j \in C31_Before(k, "zsk", r.Zone) :
                    \A m \in (j + 1)..(k - 1) :
                        /\ Trace.Records[m].kind # "ds"
                        /\ Trace.Records[m].kind = "validation" => Trace.Records[m].KeyType = "ksk"
            /\ r.kind = "ds" =>
                /\ C31_Before(k, "zsk", r.Parent) # {}
                /\ C31_Before(k, "ksk", r.Parent) # {}
            /\ r.kind # "lookup" =>
                \A j \in 1..(k - 1) :
                    Trace.Records[j].kind # "lookup" => Trace.Records[j].Depth <= r.Depth

\* the last record of the trace
C31_Last == Trace.Records[Len(Trace.Records)]

\* C31: within one stub resolution with tracing the trace only grows by
\* appends; the lookup of a response precedes every signature validation
\* that uses its records; a ksk validation follows the valid zsk validation
\* of its zone and depth, and the DS check of a depth follows both; the
\* depths never decrease along the trace; a verification that fails leaves a
\* validation record with the error; and a successful authentication ends
\* with a DS check whose parent is the root zone
C31_TraceOrder ==
    /\ [][C31_Tracing =>
            /\ Len(Trace.Records) <= Len(Trace'.Records)
            /\ SubSeq(Trace'.Records, 1, Len(Trace.Records)) = Trace.Records]_vars
    /\ [](C31_Tracing => C31_Causal)
    /\ []((C31_Tracing /\ pc = "done" /\ h_err.kind = "unable to verify") =>
            /\ Trace.Records # <<>>
            /\ C31_Last.kind = "validation"
            /\ ~C31_Last.Valid
            /\ C31_Last.Err = h_err.cause)
    /\ []((C31_Tracing /\ pc = "done" /\ LocallyAuthenticateData /\ ret.err = NoErr) =>
            /\ Trace.Records # <<>>
            /\ C31_Last.kind = "ds"
            /\ C31_Last.Parent = Root)

\* a traced Query returned after a verification failed one level up the
\* chain: the trace holds the DS check of depth 0 and ends with the failed
\* validation of depth 1
C31_Witness ==
    /\ C31_Tracing /\ pc = "done"
    /\ h_err.kind = "unable to verify"
    /\ \E k \in 1..Len(Trace.Records) :
          Trace.Records[k].kind = "ds" /\ Trace.Records[k].Depth = 0
    /\ Len(Trace.Records) >= 2
    /\ C31_Last.kind = "validation" /\ C31_Last.Depth = 1 /\ ~C31_Last.Valid

-----------------------------------------------------------------------------
(* Claim C32 *)

\* the parent zone of a zone below the root: the name without its first label
C32_ParentZone(zone) ==
    LET dot == CHOOSE i \in 1..Len(zone) :
                   zone[i] = "." /\ \A j \in 1..(i - 1) : zone[j] # "."
        rest == SubSeq(zone, dot + 1, Len(zone))
    IN  IF rest = <<>> THEN Root ELSE rest

\* the DS check r describes the match of this key-signing key at this depth
C32_Describes(r, depth, key) ==
    /\ r.Depth = depth
    /\ r.Child = key.name
    /\ key.name # Root => r.Parent = C32_ParentZone(key.name)
    /\ r.Hash.of = key.rdata.kid
    /\ ~r.Hash.upper

\* C32: every delegation-signer-check record of the trace names as child the
\* zone whose KSK was matched and as parent the parent zone of that zone,
\* with the depth of the match and the matched digest in lower-case hex
C32_DSCheckRecord ==
    (EnableTrace /\ pc \notin {"idle", "off"}) =>
        \A k \in 1..Len(Trace.Records) :
            Trace.Records[k].kind = "ds" =>
                \E m \in h_linked : C32_Describes(Trace.Records[k], m.depth, m.key)

-----------------------------------------------------------------------------
(* Claim C33 *)

\* a top-level Query of the iterative resolver starts
C33_Starts == walk_pc # "run" /\ walk_pc' = "run"

\* C33: the query budget is per top-level call: every top-level Query of the
\* iterative resolver starts with its counter at 0, whatever the earlier
\* Queries on the instance consumed and however they ended, and every
\* transport call of that Query, made from whatever node and at whatever
\* nesting, is counted on that one counter
C33_BudgetPerQuery ==
    /\ [][C33_Starts => queryCounter' = 0]_vars
    /\ [][(walk_pc = "run" /\ h_calls' # h_calls) =>
            /\ h_calls' = h_calls + 1
            /\ queryCounter' = queryCounter + 1]_vars
    /\ [](walk_pc \in {"run", "returned", "panic"} => queryCounter = h_calls)

\* a second Query is under way and has made its first transport call, after
\* a first Query that ended with the budget error: that one had counted the
\* call on the root server and the nested calls up to max-query-count + 1
C33_Witness ==
    /\ h_queries = 2 /\ walk_pc = "run"
    /\ walk_ret.err = ErrMaxQueryCount(maxQueryCount + 1)
    /\ maxQueryCount >= 1
    /\ queryCounter = 1 /\ h_calls = 1

-----------------------------------------------------------------------------
(* Claim C34 *)

\* zone is name or an ancestor of name on a label boundary: name ends with
\* zone, and what is left in front of it is nothing or ends with a dot
C34_AtOrBelow(name, zone) ==
    /\ Len(zone) <= Len(name)
    /\ \A k \in 1..Len(zone) : name[Len(name) - Len(zone) + k] = zone[k]
    /\ \/ Len(zone) = Len(name)
       \/ zone = Root
       \/ name[Len(name) - Len(zone)] = "."

\* C34: a record is assigned to the SignatureSet of an RRSIG only if the
\* signer name of the RRSIG is the owner name of the record or an ancestor
\* of it on label boundaries; a signer whose name is merely a string suffix
\* of the owner is never accepted
C34_SignerIsAncestor ==
    (ss_pc = "returned" /\ ss_out.err = NoErr) =>
        \A i \in 1..Len(ss_out.sets) :
            \A rr \in Range(ss_out.sets[i].records) :
                C34_AtOrBelow(rr.name, ss_out.sets[i].signature.rdata.signerName)

-----------------------------------------------------------------------------
(* Claim C35 *)

\* zone is name or an ancestor of name on a label boundary
C35_AtOrBelow(name, zone) ==
    \/ zone = Root
    \/ name = zone
    \/ /\ Len(zone) < Len(name)
       /\ SubSeq(name, Len(name) - Len(zone), Len(name)) = <<".">> \o zone

\* C35: a call of query or queryNameserver for a name runs on the root node
\* or on the node of a child zone whose name is that name or an ancestor of
\* it on label boundaries; a child zone whose name is merely a string suffix
\* of the name is never entered for it
C35_DescentOnLabels ==
    \A k \in 1..Len(stack) :
        stack[k].z # <<>> =>
            C35_AtOrBelow(stack[k].name, stack[k].z[Len(stack[k].z)])

-----------------------------------------------------------------------------
(* Claim C36 *)

\* C36: whenever newSignatureSets succeeds every returned SignatureSet holds
\* at least one record: an RRSIG of the input that covers no record of the
\* input yields no set with an empty record list
C36_NonEmptySets ==
    (ss_pc = "returned" /\ ss_out.err = NoErr) =>
        \A i \in 1..Len(ss_out.sets) : Len(ss_out.sets[i].records) >= 1

-----------------------------------------------------------------------------
(* Claim C37 *)

\* C37: in the DS-chain step every DS record that is compared, a DS of the
\* parent's response or a root anchor, one of a digest type without DS
\* derivation included, is a match or a non-match: the step ends in success,
\* in the recursive step or in a 'unable to find a matching DS digest' error,
\* and never in an abnormal abort of the goroutine
C37_NoAbort == pc # "panic"

-----------------------------------------------------------------------------
(* Claim C38 *)

\* C38: the query counter and max-query-count are 8-bit unsigned integers:
\* for every max-query-count in 0..255 the counter never wraps from 255 to 0
\* during a walk, so the budget check is not bypassed by overflow: the call
\* of queryNameserver entered with the counter above max-query-count, and at
\* the latest the 257th call of a Query, returns the budget error
C38_NoWrap ==
    /\ [][walk_pc = "run" => queryCounter' >= queryCounter]_vars
    /\ [](walk_pc = "run" => h_calls <= 256)

=============================================================================
